---------------------------- MODULE Spec2Model ----------------------------
(***************************************************************************)
(* A model of the 3x3 cube engine, the piece locator, the history-tracking *)
(* cube, the move notation and the layer-by-layer solver.                  *)
(*                                                                         *)
(* Python indices are 0-based, TLA+ tuples 1-based: row/column i of the    *)
(* source is i+1 here, and index -1 is Size.  Text is a tuple of           *)
(* one-character strings, so that splitting and token inspection are       *)
(* modelled as the parser performs them.  A dict is a tuple of <<key,      *)
(* value>> pairs in insertion order.                                       *)
(***************************************************************************)
EXTENDS Integers, Sequences, FiniteSets, TLC

(***************************************************************************)
(* Control flow.  An operation's state carries err, the pending exception  *)
(* ("" when there is none).                                                *)
(***************************************************************************)
NoError == ""

\* F(x), with x evaluated once, before F: a value is computed when it is
\* assigned, not each time it is read
Bind(x, F(_)) == CHOOSE r \in {F(v) : v \in {x}} : TRUE

RECURSIVE ForRange(_, _, _, _)
\* for k in range(lo, lo + n): s = Body(s, k).  The range is halved so that
\* the evaluation stays shallow; the bodies run in increasing order of k,
\* each on the state the one before it left.  A pending exception (s.err)
\* ends the loop.
ForRange(Body(_, _), s, lo, n) ==
    IF n <= 0 THEN s
    ELSE IF n = 1 THEN IF s.err # NoError THEN s ELSE Body(s, lo)
    ELSE CHOOSE r \in {ForRange(Body, v, lo + (n + 1) \div 2, n \div 2) :
                          v \in {ForRange(Body, s, lo, (n + 1) \div 2)}} : TRUE

(***************************************************************************)
(* cube/colour.py                                                          *)
(***************************************************************************)
WHITE  == "white"
GREEN  == "green"
ORANGE == "orange"
YELLOW == "yellow"
BLUE   == "blue"
RED    == "red"

Colours == {WHITE, GREEN, ORANGE, YELLOW, BLUE, RED}

INITIAL_FACE_COLOUR_MAPPING ==
    << <<"U", WHITE>>, <<"F", GREEN>>, <<"L", ORANGE>>,
       <<"B", BLUE>>, <<"R", RED>>, <<"D", YELLOW>> >>

FaceNames == {"U", "F", "L", "B", "R", "D"}

Size == 3

(***************************************************************************)
(* cube/move.py                                                            *)
(***************************************************************************)
Move(face, invert, double) == [face |-> face, invert |-> invert, double |-> double]

(***************************************************************************)
(* scramble/parser.py                                                      *)
(***************************************************************************)
Whitespace == {" ", "\t", "\n"}

\* [Op(x) for x in l]
Map(Op(_), l) == Bind(l, LAMBDA v : [k \in 1..Len(v) |-> Op(v[k])])

\* str.split(): the maximal runs of non-whitespace characters, in order,
\* found by one scan over the characters; the end of the text closes the
\* last run as whitespace does
SplitScan(text) ==
    ForRange(LAMBDA s, i :
                 IF i > Len(text) \/ text[i] \in Whitespace
                 THEN IF s.cur = <<>> THEN s
                      ELSE [s EXCEPT !.toks = Append(@, s.cur), !.cur = <<>>]
                 ELSE [s EXCEPT !.cur = Append(@, text[i])],
             [toks |-> <<>>, cur |-> <<>>, err |-> NoError],
             1, Len(text) + 1).toks

Split(text) == Bind(text, SplitScan)

\* x in s, for a character x and a string s
Contains(s, x) == \E i \in 1..Len(s) : s[i] = x

\* Move(face=move[0], invert="'" in move, double="2" in move)
TokenToMove(move) == Move(move[1], Contains(move, "'"), Contains(move, "2"))

scramble_to_moves(scramble) == Map(TokenToMove, Split(scramble))

RECURSIVE JoinRange(_, _, _)
\* l[lo], " ", ..., " ", l[hi], concatenated (halving keeps the evaluation shallow)
JoinRange(l, lo, hi) ==
    IF lo > hi THEN <<>>
    ELSE IF lo = hi THEN l[lo]
    ELSE JoinRange(l, lo, (lo + hi) \div 2) \o <<" ">>
             \o JoinRange(l, (lo + hi) \div 2 + 1, hi)

\* " ".join(l)
Join(l) == Bind(l, LAMBDA v : JoinRange(v, 1, Len(v)))

\* the token written with a double move taken for a single one
MoveToToken_single(move) ==
    IF move.invert THEN <<move.face, "'">> ELSE <<move.face>>

\* face + "2" if double, face + "'" if invert, face otherwise
MoveToToken(move) ==
    IF move.double THEN <<move.face, "2">>
    ELSE IF move.invert THEN <<move.face, "'">>
    ELSE <<move.face>>

moves_to_scramble(moves) == Join(Map(MoveToToken, moves))

\* move with its direction flipped and its double flag cleared
Inverted_single(move) == Move(move.face, ~move.invert, FALSE)

\* move with its direction flipped
Inverted(move) == Move(move.face, ~move.invert, move.double)

\* invert_moves that reverses the order but keeps every direction
invert_moves_keeps_direction(moves) ==
    Bind(moves, LAMBDA l : [k \in 1..Len(l) |-> l[Len(l) + 1 - k]])

invert_moves(moves) ==
    Bind(moves, LAMBDA l : [k \in 1..Len(l) |-> Inverted(l[Len(l) + 1 - k])])

(***************************************************************************)
(* cube/cube.py : the face grids and the move engine                       *)
(***************************************************************************)
_generate_face(colour) ==
    << <<colour, colour, colour>>, <<colour, colour, colour>>,
       <<colour, colour, colour>> >>

\* a new cube with the colours of U and F exchanged
NewFaces_green_up ==
    [f \in FaceNames |->
        _generate_face((CHOOSE p \in {INITIAL_FACE_COLOUR_MAPPING[k] : k \in 1..6} :
                            p[1] = IF f = "U" THEN "F" ELSE IF f = "F" THEN "U" ELSE f)[2])]

\* Cube.__init__: the faces dict of a new cube
NewFaces ==
    [f \in FaceNames |->
        _generate_face((CHOOSE p \in {INITIAL_FACE_COLOUR_MAPPING[k] : k \in 1..6} :
                            p[1] = f)[2])]

\* zip(*l)
_transpose(l) ==
    << <<l[1][1], l[2][1], l[3][1]>>,
       <<l[1][2], l[2][2], l[3][2]>>,
       <<l[1][3], l[2][3], l[3][3]>> >>

\* l[::-1]
Reversed(r) == <<r[3], r[2], r[1]>>

\* zip(*grid[::-1])
Rotated(grid) == _transpose(Reversed(grid))

\* _face_rotate that leaves the grid of the face as it is
_face_rotate_none(faces, face) == faces

\* faces[face] = zip(*faces[face][::-1])
_face_rotate(faces, face) ==
    [faces EXCEPT ![face] = Rotated(@)]

\* a pass of _y_rotate that reassigns the side faces and leaves U and D
YStep_sides_only(faces) ==
    [faces EXCEPT !["F"] = faces["R"], !["L"] = faces["F"],
                  !["B"] = faces["L"], !["R"] = faces["B"]]

\* one pass of the loop body of _y_rotate: the four side faces are
\* reassigned, then _face_rotate("U") once and _face_rotate("D") three times
YStep(faces) ==
    _face_rotate(
        _face_rotate(
            _face_rotate(
                _face_rotate([faces EXCEPT !["F"] = faces["R"], !["L"] = faces["F"],
                                           !["B"] = faces["L"], !["R"] = faces["B"]],
                             "U"),
                "D"),
            "D"),
        "D")

RECURSIVE Times(_, _, _)
\* for _ in range(n): x = Op(x)
Times(Op(_), n, x) ==
    IF n = 0 THEN x
    ELSE CHOOSE r \in {Op(v) : v \in {Times(Op, n - 1, x)}} : TRUE

\* _y_rotate that makes one pass whatever its flags
_y_rotate_once(faces, double, inverse) == YStep(faces)

\* YStep once, twice for double, three times for inverse
_y_rotate(faces, double, inverse) ==
    Times(YStep, IF double THEN 2 ELSE IF inverse THEN 3 ELSE 1, faces)

\* the "F" branch of _adjacent_face_swap
SwapF(faces) ==
    LET l1 == _transpose(faces["R"])
        l3 == _transpose(faces["L"])
        r0 == faces["U"][Size]
        r1 == Reversed(l1[1])
        r2 == faces["D"][1]
        r3 == Reversed(l3[Size])
    IN  [faces EXCEPT !["U"] = [@ EXCEPT ![Size] = r3],
                      !["R"] = _transpose([l1 EXCEPT ![1] = r0]),
                      !["D"] = [@ EXCEPT ![1] = r1],
                      !["L"] = _transpose([l3 EXCEPT ![Size] = r2])]

\* _adjacent_face_swap whose "U" branch takes R's new row from F instead of B
_adjacent_face_swap_overwrite(faces, face) ==
    IF face = "U"
    THEN [faces EXCEPT !["F"] = [@ EXCEPT ![1] = faces["R"][1]],
                       !["L"] = [@ EXCEPT ![1] = faces["F"][1]],
                       !["B"] = [@ EXCEPT ![1] = faces["L"][1]],
                       !["R"] = [@ EXCEPT ![1] = faces["F"][1]]]
    ELSE faces

_adjacent_face_swap(faces, face) ==
    CASE face = "U" ->
            [faces EXCEPT !["F"] = [@ EXCEPT ![1] = faces["R"][1]],
                          !["L"] = [@ EXCEPT ![1] = faces["F"][1]],
                          !["B"] = [@ EXCEPT ![1] = faces["L"][1]],
                          !["R"] = [@ EXCEPT ![1] = faces["B"][1]]]
      [] face = "D" ->
            [faces EXCEPT !["F"] = [@ EXCEPT ![Size] = faces["L"][Size]],
                          !["L"] = [@ EXCEPT ![Size] = faces["B"][Size]],
                          !["B"] = [@ EXCEPT ![Size] = faces["R"][Size]],
                          !["R"] = [@ EXCEPT ![Size] = faces["F"][Size]]]
      [] face = "F" -> SwapF(faces)
      [] face = "R" ->
            _y_rotate(Bind(_y_rotate(faces, FALSE, FALSE), SwapF), FALSE, TRUE)
      [] face = "L" ->
            _y_rotate(Bind(_y_rotate(faces, FALSE, TRUE), SwapF), FALSE, FALSE)
      [] face = "B" ->
            _y_rotate(Bind(_y_rotate(faces, TRUE, FALSE), SwapF), TRUE, FALSE)
      [] OTHER -> faces

\* the loop body of _rotate
RotateStep(faces, face) == _adjacent_face_swap(_face_rotate(faces, face), face)

_rotate(faces, move) ==
    Times(LAMBDA f : RotateStep(f, move.face),
          IF move.double THEN 2 ELSE IF move.invert THEN 3 ELSE 1, faces)

\* the loop body of Cube.do_moves
DoMove(faces, move) ==
    IF move.face = "y" THEN _y_rotate(faces, FALSE, FALSE) ELSE _rotate(faces, move)

(***************************************************************************)
(* dict helpers: a dict is a tuple of <<key, value>> pairs                 *)
(***************************************************************************)
HasKey(d, k) == \E j \in 1..Len(d) : d[j][1] = k

Get(d, k) == d[CHOOSE j \in 1..Len(d) : d[j][1] = k][2]

Keys(d) == [j \in 1..Len(d) |-> d[j][1]]

Values(d) == [j \in 1..Len(d) |-> d[j][2]]

\* d[k] = v: a key already there keeps its position and takes the value
Put(d, k, v) ==
    IF HasKey(d, k) THEN [j \in 1..Len(d) |-> IF d[j][1] = k THEN <<k, v>> ELSE d[j]]
    ELSE Append(d, <<k, v>>)

\* the dict literal {k1: v1, k2: v2, ...}: the pairs are entered in order
DictOf(pairs) ==
    ForRange(LAMBDA s, j : [s EXCEPT !.d = Put(@, pairs[j][1], pairs[j][2])],
             [d |-> <<>>, err |-> NoError], 1, Len(pairs)).d

(***************************************************************************)
(* cube/pieces.py                                                          *)
(***************************************************************************)
EDGE_TO_UF ==
    << << <<"U", "F">>, <<"U", "2", " ", "U", "2">> >>,
       << <<"U", "L">>, <<"U", "'">> >>,
       << <<"U", "R">>, <<"U">> >>,
       << <<"U", "B">>, <<"U", "2">> >>,
       << <<"L", "B">>, <<"L", "2", " ", "F">> >>,
       << <<"L", "D">>, <<"L", "'", " ", "F">> >>,
       << <<"L", "F">>, <<"F">> >>,
       << <<"R", "B">>, <<"R", "2", " ", "F", "'">> >>,
       << <<"R", "D">>, <<"R", " ", "F", "'">> >>,
       << <<"R", "F">>, <<"F", "'">> >>,
       << <<"D", "B">>, <<"D", "2", " ", "F", "2">> >>,
       << <<"D", "F">>, <<"F", "2">> >> >>

CORNER_TO_UFR ==
    << << <<"U", "F", "R">>, <<"U", "2", " ", "U", "2">> >>,
       << <<"D", "F", "R">>, <<"R">> >>,
       << <<"D", "B", "R">>, <<"R", "2">> >>,
       << <<"U", "R", "B">>, <<"U">> >>,
       << <<"U", "L", "F">>, <<"U", "'">> >>,
       << <<"U", "B", "L">>, <<"U", "2">> >>,
       << <<"D", "F", "L">>, <<"L", "'", " ", "U", "'">> >>,
       << <<"D", "B", "L">>, <<"L", "2", " ", "U", "'">> >> >>

(***************************************************************************)
(* Objects and calls.  Face grids live in a heap of faces dicts, so that   *)
(* two cubes sharing one dict (HistoryCube.__init__ keeps the dict it is   *)
(* given) see each other's moves.  A call runs in a frame                  *)
(*     [heap, self, ret, err]                                              *)
(* holding the heap, the receiver [cls, size, faces (a reference),         *)
(* history], the value returned and the pending exception, and             *)
(*     [brk, local]                                                        *)
(* for the caller's loop: whether it was left by break, and a local of it. *)
(***************************************************************************)
None == "None"

Frame(heap, self) ==
    [heap |-> heap, self |-> self, ret |-> None, err |-> NoError,
     brk |-> FALSE, local |-> None]

\* self.faces
Faces(w) == w.heap[w.self.faces]

\* raise e
Raise(w, e) == [w EXCEPT !.err = e]

\* w; F(w): the statement F runs in the frame w left, unless an exception
\* is pending
Then(w, F(_)) == CHOOSE r \in {IF v.err # NoError THEN v ELSE F(v) : v \in {w}} : TRUE

\* return v
Return(w, v) == [w EXCEPT !.ret = v]

\* return None
ReturnNone(w) == Return(w, None)

\* the argument list of do_moves
Args(moves, is_str, save_history) ==
    [moves |-> moves, is_str |-> is_str, save_history |-> save_history]

\* if isinstance(moves, str): moves = scramble_to_moves(moves)
MovesOf(arg) == IF arg.is_str THEN scramble_to_moves(arg.moves) ELSE arg.moves

\* self.faces[face] raises KeyError for a face that is no key of the dict
RaisesKeyError(faces, move) == move.face \notin (DOMAIN faces \cup {"y"})

\* Cube.do_moves on a list of Move: the moves before a failing one stay applied
DoMovesList(w, moves) ==
    Then(ForRange(LAMBDA s, k :
                      IF RaisesKeyError(Faces(s), moves[k])
                      THEN Raise(s, "KeyError")
                      ELSE [s EXCEPT !.heap[s.self.faces] = DoMove(@, moves[k])],
                  w, 1, Len(moves)),
         ReturnNone)

\* Cube.do_moves
Cube_do_moves(w, arg) == Bind(MovesOf(arg), LAMBDA moves : DoMovesList(w, moves))

\* the tail of HistoryCube.do_moves that appends whatever save_history says
Record_always(w, moves, save_history) ==
    [w EXCEPT !.self.history = @ \o moves]

\* the tail of HistoryCube.do_moves: if save_history, every move is appended
\* to the trace
Record(w, moves, save_history) ==
    IF save_history THEN [w EXCEPT !.self.history = @ \o moves] ELSE w

\* HistoryCube.do_moves that puts the moves at the head of the trace
HistoryCube_do_moves_prepend(w, arg) ==
    Then(Cube_do_moves(w, arg),
         LAMBDA s : IF arg.save_history
                    THEN [s EXCEPT !.self.history = MovesOf(arg) \o @]
                    ELSE s)

\* HistoryCube.do_moves: the parent implementation, then the trace
HistoryCube_do_moves(w, arg) ==
    Then(Cube_do_moves(w, arg), LAMBDA s : Record(s, MovesOf(arg), arg.save_history))

\* Cube.is_solved
is_solved(faces) ==
    \A f \in DOMAIN faces : \A r \in 1..Size : \A c \in 1..Size :
        faces[f][r][c] = faces[f][1][1]

(***************************************************************************)
(* cube/cube.py and cube/history_cube.py : the piece locator.  A method    *)
(* called on self goes through Call, which resolves it in the receiver's   *)
(* class.                                                                  *)
(***************************************************************************)
RECURSIVE Call(_, _, _)

\* the edge read with its two cells exchanged
EdgeInfo_swapped(piece, faces) ==
    DictOf(<< <<piece[1], faces["F"][1][2]>>,
              <<piece[2], faces["U"][Size][2]>> >>)

\* {piece[0]: faces["U"][-1][1], piece[1]: faces["F"][0][1]}
EdgeInfo(piece, faces) ==
    DictOf(<< <<piece[1], faces["U"][Size][2]>>,
              <<piece[2], faces["F"][1][2]>> >>)

\* {piece[0]: faces["U"][-1][-1], piece[1]: faces["F"][0][-1],
\*  piece[2]: faces["R"][0][0]}
CornerInfo(piece, faces) ==
    DictOf(<< <<piece[1], faces["U"][Size][Size]>>,
              <<piece[2], faces["F"][1][Size]>>,
              <<piece[3], faces["R"][1][1]>> >>)

\* table[piece], parsed
SetupMoves(table, piece) == scramble_to_moves(Get(table, piece))

\* Cube.get_edge: the setup moves are applied and the two cells read; the
\* result of invert_moves is dropped, so nothing is undone
Cube_get_edge(w, piece) ==
    IF ~HasKey(EDGE_TO_UF, piece) THEN Raise(w, "KeyError")
    ELSE Then(Call(w, "do_moves", Args(SetupMoves(EDGE_TO_UF, piece), FALSE, TRUE)),
              LAMBDA s : Return(s, EdgeInfo(piece, Faces(s))))

\* HistoryCube.get_edge that records its setup moves
HistoryCube_get_edge_recorded(w, piece) ==
    IF ~HasKey(EDGE_TO_UF, piece) THEN Raise(w, "KeyError")
    ELSE Then(Call(w, "do_moves", Args(SetupMoves(EDGE_TO_UF, piece), FALSE, TRUE)),
              LAMBDA s :
                  Then(Call(s, "do_moves",
                            Args(invert_moves(SetupMoves(EDGE_TO_UF, piece)),
                                 FALSE, FALSE)),
                       LAMBDA t : Return(t, EdgeInfo(piece, Faces(s)))))

\* HistoryCube.get_edge: setup, read, undo, neither recorded
HistoryCube_get_edge(w, piece) ==
    IF ~HasKey(EDGE_TO_UF, piece) THEN Raise(w, "KeyError")
    ELSE Then(Call(w, "do_moves", Args(SetupMoves(EDGE_TO_UF, piece), FALSE, FALSE)),
              LAMBDA s :
                  Then(Call(s, "do_moves",
                            Args(invert_moves(SetupMoves(EDGE_TO_UF, piece)),
                                 FALSE, FALSE)),
                       LAMBDA t : Return(t, EdgeInfo(piece, Faces(s)))))

\* Cube.get_corner
Cube_get_corner(w, piece) ==
    IF ~HasKey(CORNER_TO_UFR, piece) THEN Raise(w, "KeyError")
    ELSE Then(Call(w, "do_moves", Args(SetupMoves(CORNER_TO_UFR, piece), FALSE, TRUE)),
              LAMBDA s : Return(s, CornerInfo(piece, Faces(s))))

\* HistoryCube.get_corner without the undo of the setup moves
HistoryCube_get_corner_no_undo(w, piece) ==
    IF ~HasKey(CORNER_TO_UFR, piece) THEN Raise(w, "KeyError")
    ELSE Then(Call(w, "do_moves", Args(SetupMoves(CORNER_TO_UFR, piece), FALSE, FALSE)),
              LAMBDA s : Return(s, CornerInfo(piece, Faces(s))))

\* HistoryCube.get_corner
HistoryCube_get_corner(w, piece) ==
    IF ~HasKey(CORNER_TO_UFR, piece) THEN Raise(w, "KeyError")
    ELSE Then(Call(w, "do_moves", Args(SetupMoves(CORNER_TO_UFR, piece), FALSE, FALSE)),
              LAMBDA s :
                  Then(Call(s, "do_moves",
                            Args(invert_moves(SetupMoves(CORNER_TO_UFR, piece)),
                                 FALSE, FALSE)),
                       LAMBDA t : Return(t, CornerInfo(piece, Faces(s)))))

\* s with its k-th element removed
Without(s, k) == SubSeq(s, 1, k - 1) \o SubSeq(s, k + 1, Len(s))

RECURSIVE permutations(_)
RECURSIVE permutations_from(_, _)
\* itertools.permutations(s), in the order it yields them
permutations(s) == IF Len(s) <= 1 THEN <<s>> ELSE permutations_from(s, 1)

\* x prepended to every element of l
Prefixed(x, l) == Bind(l, LAMBDA v : [j \in 1..Len(v) |-> <<x>> \o v[j]])

permutations_from(s, k) ==
    IF k > Len(s) THEN <<>>
    ELSE Prefixed(s[k], permutations(Without(s, k))) \o permutations_from(s, k + 1)

\* perm is a key of EDGE_TO_UF or of CORNER_TO_UFR
IsPiece(perm) == HasKey(EDGE_TO_UF, perm) \/ HasKey(CORNER_TO_UFR, perm)

\* the first element of perms that is a key of either table (<<>> if none)
FirstPiece(perms) ==
    Bind(perms, LAMBDA l :
        IF \A j \in 1..Len(l) : ~IsPiece(l[j]) THEN <<>>
        ELSE l[CHOOSE j \in 1..Len(l) :
                   IsPiece(l[j]) /\ \A h \in 1..(j - 1) : ~IsPiece(l[h])])

\* Cube.get_sticker that returns None where no permutation is found
GetStickerOf_silent(w, sticker, perm) ==
    IF perm = <<>> THEN ReturnNone(w)
    ELSE Then(Call(w, IF HasKey(EDGE_TO_UF, perm) THEN "get_edge" ELSE "get_corner",
                   perm),
              LAMBDA s : Return(s, Get(s.ret, sticker[1])))

\* Cube.get_sticker with the permutation found: the piece is looked up and
\* its entry for the sticker's first letter returned
GetStickerOf(w, sticker, perm) ==
    IF perm = <<>> THEN Raise(w, "ValueError")
    ELSE Then(Call(w, IF HasKey(EDGE_TO_UF, perm) THEN "get_edge" ELSE "get_corner",
                   perm),
              LAMBDA s : Return(s, Get(s.ret, sticker[1])))

\* Cube.get_sticker (inherited by HistoryCube): the first permutation that is
\* a key of either table decides
get_sticker(w, sticker) ==
    Bind(FirstPiece(permutations(sticker)), LAMBDA perm : GetStickerOf(w, sticker, perm))

(***************************************************************************)
(* scramble/cleaner.py                                                     *)
(***************************************************************************)
\* is_double that finds no move double
is_double_never(move) == FALSE

\* move[1] == "2", False when move has no second character
is_double(move) == Len(move) >= 2 /\ move[2] = "2"

\* is_prime that takes any second character for the prime mark
is_prime_any_mark(move) == Len(move) >= 2

\* move[1] == "'", False when move has no second character
is_prime(move) == Len(move) >= 2 /\ move[2] = "'"

\* del l[k]
Del(l, k) == Without(l, k)

\* two moves of one face always cancelled
Combine_cancel(l, k) == Del(Del(l, k), k)

\* the pair l[k], l[k + 1] of moves of one face combined: the branch is
\* chosen by the kinds of the two moves
Combine(l, k) ==
    IF ~is_prime(l[k]) /\ ~is_double(l[k])
    THEN IF ~is_prime(l[k + 1]) /\ ~is_double(l[k + 1])
         THEN [Del(l, k + 1) EXCEPT ![k] = l[k] \o <<"2">>]
         ELSE IF is_prime(l[k + 1]) THEN Del(Del(l, k), k)
         ELSE IF is_double(l[k + 1])
         THEN [Del(l, k + 1) EXCEPT ![k] = l[k] \o <<"'">>]
         ELSE l
    ELSE IF is_prime(l[k])
    THEN IF ~is_prime(l[k + 1]) /\ ~is_double(l[k + 1]) THEN Del(Del(l, k), k)
         ELSE IF is_prime(l[k + 1])
         THEN [Del(l, k + 1) EXCEPT ![k] = <<l[k][1], "2">>]
         ELSE IF is_double(l[k + 1])
         THEN [Del(l, k + 1) EXCEPT ![k] = <<l[k][1]>>]
         ELSE l
    ELSE IF is_double(l[k])
    THEN IF ~is_prime(l[k + 1]) /\ ~is_double(l[k + 1])
         THEN [Del(l, k) EXCEPT ![k] = <<l[k + 1][1], "'">>]
         ELSE IF is_prime(l[k + 1])
         THEN [Del(l, k + 1) EXCEPT ![k] = <<l[k][1]>>]
         ELSE IF is_double(l[k + 1]) THEN Del(Del(l, k), k)
         ELSE l
    ELSE l

\* a pass of clean_moves that drops the second of two moves of one face
CleanPass_drop(s) ==
    IF s.seq + 2 > Len(s.l) THEN [s EXCEPT !.broke = TRUE]
    ELSE IF s.l[s.seq + 1][1] = s.l[s.seq + 2][1]
    THEN [s EXCEPT !.l = Del(@, s.seq + 2)]
    ELSE [s EXCEPT !.seq = @ + 1]

\* one pass of the while loop of clean_moves, s = [l, seq, broke]: reading
\* split_scramble[seq + 1] past the end raises IndexError, which breaks;
\* after a combination seq is stepped back and forth, so it stays
CleanPass(s) ==
    IF s.seq + 2 > Len(s.l) THEN [s EXCEPT !.broke = TRUE]
    ELSE IF s.l[s.seq + 1][1] = s.l[s.seq + 2][1]
    THEN [s EXCEPT !.l = Combine(@, s.seq + 1)]
    ELSE [s EXCEPT !.seq = @ + 1]

\* while seq < len(split_scramble): every pass removes a move, advances seq
\* or breaks, so 2 * len passes end the loop
CleanLoop(l) ==
    ForRange(LAMBDA s, n : IF s.seq < Len(s.l) /\ ~s.broke THEN CleanPass(s) ELSE s,
             [l |-> l, seq |-> 0, broke |-> FALSE, err |-> NoError],
             1, 2 * Len(l))

clean_moves(scramble) == Join(Bind(Split(scramble), CleanLoop).l)

(***************************************************************************)
(* cube/solver.py : the stages of the layer-by-layer solver, by the bodies *)
(* of their loops.  Each takes the frame of the cube it works on and       *)
(* returns the frame it leaves.                                            *)
(***************************************************************************)
\* cube.do_moves(text)
Do(w, text) == Call(w, "do_moves", Args(text, TRUE, TRUE))

\* break
Break(w) == [w EXCEPT !.brk = TRUE]

\* local = v
Let(w, v) == [w EXCEPT !.local = v]

\* x in l
In(l, x) == \E j \in 1..Len(l) : l[j] = x

\* [cube.get_sticker(x) for x in labels], left in local
Stickers(w, labels) ==
    ForRange(LAMBDA s, k :
                 Then(Call(s, "get_sticker", labels[k]),
                      LAMBDA t : Let(t, Append(t.local, t.ret))),
             Let(w, <<>>), 1, Len(labels))

\* cube.get_sticker(a) == cube.get_sticker(b)
SameSticker(w, a, b) ==
    Then(Call(w, "get_sticker", a),
         LAMBDA x : Then(Call(x, "get_sticker", b),
                         LAMBDA y : Return(y, x.ret = y.ret)))

\* [face == WHITE for face in top_layer]
IsWhite(top_layer) == [k \in 1..Len(top_layer) |-> top_layer[k] = WHITE]

solve_cross_EDGES ==
    << <<<<"U", "F">>, <<>>>>, <<<<"U", "L">>, <<"U", "'">>>>, <<<<"U", "R">>, <<"U">>>>, <<<<"U", "B">>, <<"U", "2">>>>,
       <<<<"L", "B">>, <<"L", " ", "U", "'", " ", "L", "'">>>>, <<<<"L", "D">>, <<"L", "2", " ", "U", "'">>>>, <<<<"L", "F">>, <<"L", "'", " ", "U", "'", " ", "L">>>>,
       <<<<"R", "B">>, <<"R", "'", " ", "U", " ", "R">>>>, <<<<"R", "D">>, <<"R", "2", " ", "U">>>>, <<<<"R", "F">>, <<"R", " ", "U", " ", "R", "'">>>>,
       <<<<"D", "B">>, <<"B", "2", " ", "U", "2">>>>, <<<<"D", "F">>, <<"F", "2">>>> >>

\* the colours of "for colour in ..." of solve_cross
solve_cross_colours == <<BLUE, ORANGE, GREEN, RED>>

\* the body of "for edge in EDGES" of solve_cross
solve_cross_edge(w, colour, edge) ==
    Then(Call(w, "get_edge", edge),
         LAMBDA a :
             IF Values(a.ret) \in {<<colour, YELLOW>>, <<YELLOW, colour>>}
             THEN Then(Do(a, Get(solve_cross_EDGES, edge)),
                  LAMBDA b : Then(Call(b, "get_edge", <<"U", "F">>),
                  LAMBDA c : Then(IF Get(c.ret, "U") = YELLOW
                                  THEN Do(c, <<"F", "2">>)
                                  ELSE Do(c, <<"R", " ", "U", "'", " ", "R", "'", " ", "F">>),
                  LAMBDA d : Then(Do(d, <<"D", "'">>), Break))))
             ELSE a)

\* solve_cross ending with a quarter turn of D
solve_cross_end_quarter(w) == Do(w, <<"D">>)

\* the statement of solve_cross after its loops
solve_cross_end(w) == Do(w, <<"D", "2">>)

solve_corners_CORNERS ==
    << <<<<"U", "F", "R">>, <<"U", "2", " ", "U", "2">>>>, <<<<"D", "F", "R">>, <<"R", " ", "U", " ", "R", "'", " ", "U", "'">>>>, <<<<"D", "B", "R">>, <<"R", "'", " ", "U", " ", "R", " ", "U">>>>,
       <<<<"U", "R", "B">>, <<"U">>>>, <<<<"U", "L", "F">>, <<"U", "'">>>>, <<<<"U", "B", "L">>, <<"U", "2">>>>,
       <<<<"D", "F", "L">>, <<"L", "'", " ", "U", "'", " ", "L">>>>, <<<<"D", "B", "L">>, <<"L", " ", "U", " ", "L", "'", " ", "U">>>> >>

\* the colour pairs of "for colour1, colour2 in ..." of solve_corners
solve_corners_colours ==
    << <<GREEN, RED>>, <<BLUE, RED>>, <<BLUE, ORANGE>>, <<GREEN, ORANGE>> >>

\* solve_corners inserting every corner with the same three moves
solve_corners_insert_plain(w) == Do(w, <<"R", " ", "U", " ", "R", "'">>)

\* the choice of the inserting moves in solve_corners, and their execution
solve_corners_insert(w) ==
    Then(Call(w, "get_sticker", <<"U", "F", "R">>),
         LAMBDA a :
             IF a.ret = YELLOW THEN Do(a, <<"U", " ", "R", " ", "U", "2", " ", "R", "'", " ", "U", " ", "R", " ", "U", "'", " ", "R", "'">>)
             ELSE Then(Call(a, "get_sticker", <<"F", "U", "R">>),
                       LAMBDA b : IF b.ret = YELLOW THEN Do(b, <<"U", " ", "R", " ", "U", "'", " ", "R", "'">>)
                                  ELSE Do(b, <<"R", " ", "U", " ", "R", "'">>)))

\* the body of "for corner in CORNERS" of solve_corners
solve_corners_corner(w, colours, corner) ==
    Then(Call(w, "get_corner", corner),
         LAMBDA a :
             IF /\ In(Values(a.ret), colours[1])
                /\ In(Values(a.ret), colours[2])
                /\ In(Values(a.ret), YELLOW)
             THEN Then(Do(a, Get(solve_corners_CORNERS, corner)),
                  LAMBDA b : Then(solve_corners_insert(b),
                  LAMBDA c : Then(Do(c, <<"D", "'">>), Break)))
             ELSE a)

\* the table of solve_middle_edges without its last entry
solve_middle_edges_EDGES_no_LB ==
    << <<<<"U", "F">>, <<"U", "2", " ", "U", "2">>>>, <<<<"U", "R">>, <<"U">>>>, <<<<"U", "L">>, <<"U", "'">>>>, <<<<"U", "B">>, <<"U", "2">>>>,
       <<<<"R", "F">>, <<"R", "'", " ", "F", " ", "R", " ", "F", "'", " ", "R", " ", "U", " ", "R", "'", " ", "U", "'">>>>, <<<<"L", "F">>, <<"L", " ", "F", "'", " ", "L", "'", " ", "F", " ", "L", "'", " ", "U", "'", " ", "L", " ", "U">>>>,
       <<<<"R", "B">>, <<"R", "'", " ", "U", " ", "R", " ", "B", "'", " ", "R", " ", "B", " ", "R", "'">>>> >>

\* EDGES of solve_middle_edges
solve_middle_edges_EDGES ==
    << <<<<"U", "F">>, <<"U", "2", " ", "U", "2">>>>, <<<<"U", "R">>, <<"U">>>>, <<<<"U", "L">>, <<"U", "'">>>>, <<<<"U", "B">>, <<"U", "2">>>>,
       <<<<"R", "F">>, <<"R", "'", " ", "F", " ", "R", " ", "F", "'", " ", "R", " ", "U", " ", "R", "'", " ", "U", "'">>>>, <<<<"L", "F">>, <<"L", " ", "F", "'", " ", "L", "'", " ", "F", " ", "L", "'", " ", "U", "'", " ", "L", " ", "U">>>>,
       <<<<"R", "B">>, <<"R", "'", " ", "U", " ", "R", " ", "B", "'", " ", "R", " ", "B", " ", "R", "'">>>>, <<<<"L", "B">>, <<"L", " ", "U", "'", " ", "L", "'", " ", "B", " ", "L", "'", " ", "B", "'", " ", "L">>>> >>

\* solve_middle_edges given the colour pairs of solve_corners
solve_middle_edges_colours_of_corners == solve_corners_colours

\* the colour pairs of "for colour1, colour2 in ..." of solve_middle_edges
solve_middle_edges_colours ==
    << <<GREEN, RED>>, <<RED, BLUE>>, <<BLUE, ORANGE>>, <<ORANGE, GREEN>> >>

\* the body of "for edge in EDGES" of solve_middle_edges
solve_middle_edges_edge(w, colours, edge) ==
    Then(Call(w, "get_edge", edge),
         LAMBDA a :
             IF Values(a.ret) = <<colours[1], colours[2]>>
                    \/ Values(a.ret) = <<colours[2], colours[1]>>
             THEN Then(Do(a, Get(solve_middle_edges_EDGES, edge)),
                  LAMBDA b : Then(Call(b, "get_sticker", <<"F", "U">>),
                  LAMBDA c : Then(IF c.ret = colours[1]
                                  THEN Do(c, <<"U", " ", "R", " ", "U", "'", " ", "R", "'", " ", "F", " ", "R", "'", " ", "F", "'", " ", "R">>)
                                  ELSE Do(c, <<"U", "2", " ", "R", "'", " ", "F", " ", "R", " ", "F", "'", " ", "R", " ", "U", " ", "R", "'">>),
                  LAMBDA d : Then(Do(d, <<"y">>), Break))))
             ELSE a)

\* a pass of solve_eoll that knows no pattern
solve_eoll_pass_turn(w) == Do(w, <<"U">>)

\* the body of "for _ in range(4)" of solve_eoll
solve_eoll_pass(w) ==
    Then(Stickers(w, <<<<"U", "B">>, <<"U", "R">>, <<"U", "F">>, <<"U", "L">>>>),
         LAMBDA a :
             CASE IsWhite(a.local) = <<FALSE, FALSE, FALSE, FALSE>> ->
                      Then(Do(a, <<"R", " ", "U", "2", " ", "R", "2", " ", "F", " ", "R", " ", "F", "'", " ", "U", "2", " ", "R", "'", " ", "F", " ", "R", " ", "F", "'">>), Break)
               [] IsWhite(a.local) = <<FALSE, FALSE, TRUE, TRUE>> ->
                      Then(Do(a, <<"U", " ", "F", " ", "U", " ", "R", " ", "U", "'", " ", "R", "'", " ", "F", "'", "'">>), Break)
               [] IsWhite(a.local) = <<FALSE, TRUE, FALSE, TRUE>> ->
                      Then(Do(a, <<"F", " ", "R", " ", "U", " ", "R", "'", " ", "U", "'", " ", "F", "'">>), Break)
               [] OTHER -> Do(a, <<"U">>))

solve_ocll_OCLLS ==
    << <<<<"S">>, <<"R", " ", "U", " ", "R", "'", " ", "U", " ", "R", " ", "U", "2", " ", "R", "'", " ", "U">>>>,
       <<<<"A", "S">>, <<"U", " ", "R", "'", " ", "U", "'", " ", "R", " ", "U", "'", " ", "R", "'", " ", "U", "2", " ", "R">>>>,
       <<<<"H">>, <<"F", " ", "R", " ", "U", " ", "R", "'", " ", "U", "'", " ", "R", " ", "U", " ", "R", "'", " ", "U", "'", " ", "R", " ", "U", " ", "R", "'", " ", "U", "'", " ", "F", "'">>>>,
       <<<<"H", "e", "a", "d", "l", "i", "g", "h", "t", "s">>, <<"R", "2", " ", "D", "'", " ", "R", " ", "U", "2", " ", "R", "'", " ", "D", " ", "R", " ", "U", "2", " ", "R">>>>,
       <<<<"S", "i", "d", "e", "b", "a", "r", "s">>, <<"U", "'", " ", "L", " ", "F", " ", "R", "'", " ", "F", "'", " ", "L", "'", " ", "F", " ", "R", " ", "F", "'">>>>,
       <<<<"F", "i", "s", "h">>, <<"R", "'", " ", "U", "2", " ", "R", "'", " ", "D", "'", " ", "R", " ", "U", "2", " ", "R", "'", " ", "D", " ", "R", "2">>>>,
       <<<<"P", "i">>, <<"U", " ", "R", " ", "U", "2", " ", "R", "2", " ", "U", "'", " ", "R", "2", " ", "U", "'", " ", "R", "2", " ", "U", "2", " ", "R">>>> >>

\* local = "break": the for loop of solve_ocll is left
LetBreak(w) == Let(w, "break")

\* local = "while": the while loop is entered, or entered again
LetWhile(w) == Let(w, "while")

\* local = "continue": the for loop of solve_ocll goes on
LetContinue(w) == Let(w, "continue")

\* one pass of "for _ in range(4)" of solve_ocll, up to its break, its end or
\* the while loop of its first branch; local tells which
solve_ocll_pass(w) ==
    Then(Stickers(w, <<<<"U", "B", "L">>, <<"U", "B", "R">>, <<"U", "F", "R">>, <<"U", "F", "L">>>>),
         LAMBDA a :
             CASE IsWhite(a.local) = <<FALSE, FALSE, FALSE, FALSE>> -> LetWhile(a)
               [] IsWhite(a.local) = <<FALSE, FALSE, FALSE, TRUE>> ->
                      Then(Call(a, "get_sticker", <<"F", "U", "R">>),
                           LAMBDA b :
                               Then(IF b.ret = WHITE
                                    THEN Do(b, Get(solve_ocll_OCLLS, <<"S">>))
                                    ELSE Do(b, Get(solve_ocll_OCLLS, <<"A", "S">>)),
                                    LetBreak))
               [] IsWhite(a.local) = <<FALSE, FALSE, TRUE, TRUE>> ->
                      Then(Call(a, "get_sticker", <<"B", "R", "U">>),
                           LAMBDA b :
                               Then(IF b.ret = WHITE
                                    THEN Do(b, Get(solve_ocll_OCLLS, <<"H", "e", "a", "d", "l", "i", "g", "h", "t", "s">>))
                                    ELSE Do(b, Get(solve_ocll_OCLLS, <<"S", "i", "d", "e", "b", "a", "r", "s">>)),
                                    LetBreak))
               [] IsWhite(a.local) = <<FALSE, TRUE, FALSE, TRUE>> ->
                      Then(Call(a, "get_sticker", <<"R", "U", "F">>),
                           LAMBDA b :
                               Then(IF b.ret # WHITE THEN Do(b, <<"U", "2">>) ELSE b,
                                    LAMBDA c :
                                        Then(Do(c, Get(solve_ocll_OCLLS, <<"F", "i", "s", "h">>)),
                                             LetBreak)))
               [] OTHER -> Then(Do(a, <<"U">>), LetContinue))

\* a loop condition that always holds
always_true(w) == Return(w, TRUE)

\* cube.get_sticker("FUR") != WHITE or cube.get_sticker("FUL") != WHITE
solve_ocll_while_cond(w) ==
    Then(Call(w, "get_sticker", <<"F", "U", "R">>),
         LAMBDA a :
             IF a.ret # WHITE THEN Return(a, TRUE)
             ELSE Then(Call(a, "get_sticker", <<"F", "U", "L">>),
                       LAMBDA b : Return(b, b.ret # WHITE)))

\* solve_ocll's first branch taking every case for H
solve_ocll_after_while_H(w) == Do(w, Get(solve_ocll_OCLLS, <<"H">>))

\* the statements of solve_ocll's first branch after its while loop
solve_ocll_after_while(w) ==
    Then(Call(w, "get_corner", <<"U", "F", "R">>),
         LAMBDA a :
             Then(Call(a, "get_corner", <<"U", "B", "L">>),
                  LAMBDA b :
                      IF Get(a.ret, "F") = Get(b.ret, "B")
                      THEN Do(b, Get(solve_ocll_OCLLS, <<"H">>))
                      ELSE Do(b, Get(solve_ocll_OCLLS, <<"P", "i">>))))

\* one test of the while loop of solve_ocll: a pass of its body, or the
\* statements that follow it; local tells which
solve_ocll_while(w) ==
    Then(solve_ocll_while_cond(w),
         LAMBDA a : IF a.ret THEN Then(Do(a, <<"U">>), LetWhile)
                    ELSE Then(solve_ocll_after_while(a), LetBreak))

\* alg of solve_cpll
solve_cpll_alg == <<"R", "'", " ", "U", " ", "L", "'", " ", "U", "2", " ", "R", " ", "U", "'", " ", "R", "'", " ", "U", "2", " ", "R", " ", "L", " ">>

\* the body of "for _ in range(4)" of solve_cpll
solve_cpll_pass(w) ==
    Then(SameSticker(w, <<"F", "U", "R">>, <<"F", "U", "L">>),
         LAMBDA a :
             Then(IF a.ret THEN SameSticker(a, <<"B", "L", "U">>, <<"B", "R", "U">>) ELSE a,
                  LAMBDA b :
                      IF b.ret THEN Break(b)
                      ELSE Then(SameSticker(b, <<"F", "R", "U">>, <<"F", "L", "U">>),
                                LAMBDA c : IF c.ret THEN Then(Do(c, solve_cpll_alg), Break)
                                           ELSE Do(c, <<"U">>))))

\* the else of solve_cpll's for loop applying the algorithm once
solve_cpll_else_once(w) == Do(w, solve_cpll_alg)

\* the else of solve_cpll's for loop, which runs when no pass broke out
solve_cpll_else(w) == Do(w, solve_cpll_alg \o <<" ", "U", " ">> \o solve_cpll_alg)

\* alg of solve_epll's second while loop
solve_epll_alg == <<"R", " ", "U", "'", " ", "R", " ", "U", " ", "R", " ", "U", " ", "R", " ", "U", "'", " ", "R", "'", " ", "U", "'", " ", "R", "2">>

\* the body of "for _ in range(4)" of solve_epll; it returns whether
\* solved_edges is to be incremented
solve_epll_pass(w) ==
    Then(SameSticker(w, <<"F", "U">>, <<"F", "U", "R">>),
         LAMBDA a : Then(Do(a, <<"U">>), LAMBDA b : Return(b, a.ret)))

\* solve_epll between its for loop and its first while loop
solve_epll_if(w, solved_edges) ==
    IF solved_edges # 4 /\ solved_edges = 0 THEN Do(w, solve_epll_alg) ELSE w

\* cube.get_sticker("FU") != cube.get_sticker("FUR")
solve_epll_while_cond(w) ==
    Then(SameSticker(w, <<"F", "U">>, <<"F", "U", "R">>), LAMBDA a : Return(a, ~a.ret))

\* one test of the first while loop of solve_epll, with the statement after it
solve_epll_while1(w) ==
    Then(solve_epll_while_cond(w),
         LAMBDA a : IF a.ret THEN Then(Do(a, <<"U">>), LetWhile)
                    ELSE Then(Do(a, <<"U", "2">>), LetBreak))

\* one test of the second while loop of solve_epll
solve_epll_while2(w) ==
    Then(solve_epll_while_cond(w),
         LAMBDA a : IF a.ret THEN Then(Do(a, solve_epll_alg), LetWhile)
                    ELSE LetBreak(a))

\* one test of the last while loop of solve_epll
solve_epll_while3(w) ==
    Then(SameSticker(w, <<"F", "U">>, <<"F", "R">>),
         LAMBDA a : IF ~a.ret THEN Then(Do(a, <<"U">>), LetWhile)
                    ELSE LetBreak(a))

(***************************************************************************)
(* Calls                                                                   *)
(***************************************************************************)
Classes == {"Cube", "HistoryCube"}

\* name(arg) called on the cube of frame w.  A method is looked up in the
\* class of the receiver, HistoryCube overriding do_moves, get_edge and
\* get_corner; the functions of cube/solver.py take the cube as argument.
Call(w, name, arg) ==
    CASE name = "do_moves" ->
             IF w.self.cls = "HistoryCube" THEN HistoryCube_do_moves(w, arg)
             ELSE Cube_do_moves(w, arg)
      [] name = "get_edge" ->
             IF w.self.cls = "HistoryCube" THEN HistoryCube_get_edge(w, arg)
             ELSE Cube_get_edge(w, arg)
      [] name = "get_corner" ->
             IF w.self.cls = "HistoryCube" THEN HistoryCube_get_corner(w, arg)
             ELSE Cube_get_corner(w, arg)
      [] name = "get_sticker" -> get_sticker(w, arg)
      [] name = "solve_cross_edge" -> solve_cross_edge(w, arg[1], arg[2])
      [] name = "solve_cross_end" -> solve_cross_end(w)
      [] name = "solve_corners_corner" -> solve_corners_corner(w, arg[1], arg[2])
      [] name = "solve_middle_edges_edge" -> solve_middle_edges_edge(w, arg[1], arg[2])
      [] name = "solve_eoll_pass" -> solve_eoll_pass(w)
      [] name = "solve_ocll_pass" -> solve_ocll_pass(w)
      [] name = "solve_ocll_while" -> solve_ocll_while(w)
      [] name = "solve_cpll_pass" -> solve_cpll_pass(w)
      [] name = "solve_cpll_else" -> solve_cpll_else(w)
      [] name = "solve_epll_pass" -> solve_epll_pass(w)
      [] name = "solve_epll_if" -> solve_epll_if(w, arg)
      [] name = "solve_epll_while1" -> solve_epll_while1(w)
      [] name = "solve_epll_while2" -> solve_epll_while2(w)
      [] name = "solve_epll_while3" -> solve_epll_while3(w)
      [] OTHER -> Raise(w, "AttributeError")

(***************************************************************************)
(* The state                                                               *)
(***************************************************************************)
VARIABLES
    heap,          \* reference -> faces dict
    cube,          \* the caller's cube: [cls, size, faces (a reference), history]
    calls,         \* do_moves calls made on cube so far
    lookups,       \* piece lookups made on cube so far
    op,            \* the last call: [name, arg]
    ret,           \* what the last call returned
    err,           \* the exception the last call raised ("" for none)
    cube_copy,     \* generate_solution's working HistoryCube
    pc,            \* position of generate_solution
    i,             \* passes made by the for loop the stage is in (the outer one)
    inner_i,       \* passes made by its inner for loop
    passes,        \* passes made by the while loop generate_solution is in
    solved_edges,  \* solve_epll's counter
    solution,      \* the moves generate_solution returned
    step_mode_data \* app.py's step-by-step playback: [active, solution_moves,
                   \* current_step, step_cube_states]

vars == << heap, cube, calls, lookups, op, ret, err,
           cube_copy, pc, i, inner_i, passes, solved_edges, solution,
           step_mode_data >>

solverVars == << cube_copy, pc, i, inner_i, passes, solved_edges, solution >>

Refs == {1, 2}

\* bounds of the model
MaxCalls == 2

MaxLookups == 1

MaxPasses == 3

\* Cube(size) / HistoryCube(size): the object; its faces dict is stored at ref
NewObject(cls, ref) == [cls |-> cls, size |-> Size, faces |-> ref, history |-> <<>>]

EdgeLabels == {EDGE_TO_UF[j][1] : j \in 1..Len(EDGE_TO_UF)}

CornerLabels == {CORNER_TO_UFR[j][1] : j \in 1..Len(CORNER_TO_UFR)}

\* every spelling of every slot
StickerLabels ==
    UNION {{permutations(l)[j] : j \in 1..Len(permutations(l))} :
              l \in EdgeLabels \cup CornerLabels}

\* the single-move texts: a face or y, bare, primed or doubled
MoveTokens ==
    {<<f>> : f \in FaceNames \cup {"y"}}
        \cup {<<f, "'">> : f \in FaceNames \cup {"y"}}
        \cup {<<f, "2">> : f \in FaceNames \cup {"y"}}

\* the example scrambles of scramble/parser.py and scramble/cleaner.py
ParserExample ==
    <<"L", " ", "U", "2", " ", "D", " ", "B", "'", " ", "R", "2", " ", "U", "2", " ", "F", " ", "R", " ", "B", "2", " ", "U", "2", " ", "R", "2", " ", "U", " ", "R", "2", " ", "U", "2", " ", "F", "2", " ", "D", " ", "R", "2", " ", "D", " ", "F", "2">>

CleanerExample ==
    <<"B", " ", "R", "2", " ", "B", " ", "F", "2", " ", "L", "2", " ", "D", " ", "D", "2", " ", "F", "2", " ", "D", "2", " ", "L", " ", "B", " ", "D", " ", "U", "2", " ", "D", "2", " ", "D", "2", " ", "R", " ", "R", "2", " ", "L", " ", "F", "2", " ", "U", "2">>

MoveTexts == MoveTokens \cup {ParserExample, CleanerExample}

NoCall == [name |-> "none", arg |-> <<>>]

\* no object: the value of cube_copy outside generate_solution
NoObject == [cls |-> None, size |-> 0, faces |-> 0, history |-> <<>>]

\* app.py: step_mode_data as the module and stop_step_solve set it
StepModeOff ==
    [active |-> FALSE, solution_moves |-> <<>>, current_step |-> 0,
     step_cube_states |-> <<>>]

IdleSolver ==
    /\ cube_copy = NoObject
    /\ pc = "idle"
    /\ i = 0
    /\ inner_i = 0
    /\ passes = 0
    /\ solved_edges = 0
    /\ solution = <<>>

\* app.py: cube = Cube(3)
Init ==
    /\ heap = [r \in Refs |-> NewFaces]
    /\ cube = NewObject("Cube", 1)
    /\ calls = 0
    /\ lookups = 0
    /\ op = NoCall
    /\ ret = None
    /\ err = NoError
    /\ IdleSolver
    /\ step_mode_data = StepModeOff

\* the effect of the call cube.name(arg) that ended in frame w
Returned(name, arg, w) ==
    /\ heap' = w.heap
    /\ cube' = w.self
    /\ op' = [name |-> name, arg |-> arg]
    /\ ret' = w.ret
    /\ err' = w.err

\* cube = Cube(3) (app.py new_cube), or a HistoryCube(3) in its place
NewCube(cls) ==
    /\ heap' = [heap EXCEPT ![cube.faces] = NewFaces]
    /\ cube' = NewObject(cls, cube.faces)
    /\ calls' = 0
    /\ lookups' = 0
    /\ op' = [name |-> "new", arg |-> <<>>]
    /\ ret' = None
    /\ err' = NoError
    /\ UNCHANGED << solverVars, step_mode_data >>

\* cube.do_moves(text) / cube.do_moves(text, save_history)
CallDoMoves(text, save_history) ==
    /\ calls < MaxCalls
    /\ cube.cls = "Cube" => save_history
    /\ \E w \in {Call(Frame(heap, cube), "do_moves", Args(text, TRUE, save_history))} :
          Returned(IF save_history THEN "do_moves" ELSE "do_moves_unrecorded", text, w)
    /\ calls' = calls + 1
    /\ UNCHANGED << lookups, solverVars, step_mode_data >>

\* cube.get_edge(piece) / cube.get_corner(piece) / cube.get_sticker(sticker)
CallLookup(name, piece) ==
    /\ lookups < MaxLookups
    /\ \E w \in {Call(Frame(heap, cube), name, piece)} : Returned(name, piece, w)
    /\ lookups' = lookups + 1
    /\ UNCHANGED << calls, solverVars, step_mode_data >>

CallGetEdge(piece) == CallLookup("get_edge", piece)

CallGetCorner(piece) == CallLookup("get_corner", piece)

CallGetSticker(sticker) == CallLookup("get_sticker", sticker)

\* The engine: cubes of either class driven by do_moves
Next ==
    \/ \E cls \in Classes : NewCube(cls)
    \/ \E text \in MoveTexts, save_history \in BOOLEAN : CallDoMoves(text, save_history)

Spec == Init /\ [][Next]_vars

\* The piece locator: a cube of either class that has made one do_moves call
\* is queried
StartTexts == {<<>>, ParserExample, CleanerExample} \cup MoveTokens

\* the cube of class cls after cube.do_moves(text)
Started(cls, text) ==
    Call(Frame([ref \in Refs |-> NewFaces], NewObject(cls, 1)), "do_moves",
         Args(text, TRUE, TRUE))

InitLookup ==
    /\ \E cls \in Classes, text \in StartTexts :
          \E w \in {Started(cls, text)} :
              /\ heap = w.heap
              /\ cube = w.self
              /\ op = [name |-> "do_moves", arg |-> text]
    /\ calls = 1
    /\ lookups = 0
    /\ ret = None
    /\ err = NoError
    /\ IdleSolver
    /\ step_mode_data = StepModeOff

NextLookup ==
    \/ \E piece \in EdgeLabels : CallGetEdge(piece)
    \/ \E piece \in CornerLabels : CallGetCorner(piece)
    \/ \E sticker \in StickerLabels : CallGetSticker(sticker)

SpecLookup == InitLookup /\ [][NextLookup]_vars

(***************************************************************************)
(* cube/solver.py : generate_solution, one pass of a loop at a time.  The  *)
(* while loops of solve_ocll and solve_epll run at most MaxPasses passes   *)
(* each.                                                                   *)
(***************************************************************************)
\* the reference of a dict that is not ref
FreshRef(ref) == CHOOSE r \in Refs : r # ref

\* deepcopy that hands back the dict it was given
deepcopy_same(h, ref) == [heap |-> h, ref |-> ref]

\* copy.deepcopy(faces): a new dict with the same contents
deepcopy(h, ref) ==
    [heap |-> [h EXCEPT ![FreshRef(ref)] = h[ref]], ref |-> FreshRef(ref)]

\* HistoryCube(size, faces): the cube keeps the dict it is given
HistoryCube(size, ref) ==
    [cls |-> "HistoryCube", size |-> size, faces |-> ref, history |-> <<>>]

\* the scrambles generate_solution is given: no move, every single face
\* turn, and scrambles that between them reach every branch of the stages
SolveTexts ==
    {<<>>, ParserExample, CleanerExample, <<"B", " ", "D">>, <<"L", " ", "B">>, <<"B", " ", "L", "2">>,
     <<"F", "'", " ", "R">>}
        \cup {t \in MoveTokens : t[1] \in FaceNames}

InitSolve ==
    /\ \E text \in SolveTexts :
          \E w \in {Started("Cube", text)} :
              /\ heap = w.heap
              /\ cube = w.self
              /\ op = [name |-> "do_moves", arg |-> text]
    /\ calls = 1
    /\ lookups = 0
    /\ ret = None
    /\ err = NoError
    /\ IdleSolver
    /\ step_mode_data = StepModeOff

\* cube_copy = HistoryCube(cube.size, deepcopy(cube.faces))
GenerateSolution ==
    /\ pc = "idle"
    /\ \E copy \in {deepcopy(heap, cube.faces)} :
          /\ heap' = copy.heap
          /\ cube_copy' = HistoryCube(cube.size, copy.ref)
    /\ pc' = "solve_cross"
    /\ UNCHANGED << cube, calls, lookups, op, ret, err, i, inner_i, passes,
                    solved_edges, solution, step_mode_data >>

\* the frame w that a step of generate_solution on cube_copy ended in; an
\* exception leaves generate_solution
Ran(w, next) ==
    /\ heap' = w.heap
    /\ cube_copy' = w.self
    /\ err' = w.err
    /\ pc' = IF w.err # NoError THEN "raised" ELSE next
    /\ UNCHANGED << cube, calls, lookups, op, ret, solution, step_mode_data >>

\* one pass of the inner loop of a stage made of two nested for loops, the
\* inner one left by break: body(cube_copy, outer[i], inner[inner_i])
NestedForStep(stage, body, outer, inner, next) ==
    /\ pc = stage
    /\ \E w \in {Call(Frame(heap, cube_copy), body, <<outer[i + 1], inner[inner_i + 1]>>)} :
          /\ Ran(w, IF (w.brk \/ inner_i + 1 = Len(inner)) /\ i + 1 = Len(outer)
                    THEN next ELSE stage)
          /\ i' = IF w.brk \/ inner_i + 1 = Len(inner) THEN (i + 1) % Len(outer) ELSE i
          /\ inner_i' = IF w.brk \/ inner_i + 1 = Len(inner) THEN 0 ELSE inner_i + 1
    /\ UNCHANGED << passes, solved_edges >>

\* a statement of generate_solution or of a stage that is one call
Stage(name, next) ==
    /\ pc = name
    /\ \E w \in {Call(Frame(heap, cube_copy), name, <<>>)} : Ran(w, next)
    /\ UNCHANGED << i, inner_i, passes, solved_edges >>

\* one pass of "for _ in range(n)" of a stage: it breaks out, ends the loop
\* or goes on
ForStep(stage, body, n, broke, ended) ==
    /\ pc = stage
    /\ \E w \in {Call(Frame(heap, cube_copy), body, <<>>)} :
          /\ Ran(w, IF w.brk THEN broke ELSE IF i + 1 = n THEN ended ELSE stage)
          /\ i' = IF w.brk \/ i + 1 = n THEN 0 ELSE i + 1
    /\ UNCHANGED << inner_i, passes, solved_edges >>

SolveCross ==
    NestedForStep("solve_cross", "solve_cross_edge", solve_cross_colours,
                  Keys(solve_cross_EDGES), "solve_cross_end")

SolveCrossEnd == Stage("solve_cross_end", "solve_corners")

SolveCorners ==
    NestedForStep("solve_corners", "solve_corners_corner", solve_corners_colours,
                  Keys(solve_corners_CORNERS), "solve_middle_edges")

SolveMiddleEdges ==
    NestedForStep("solve_middle_edges", "solve_middle_edges_edge",
                  solve_middle_edges_colours, Keys(solve_middle_edges_EDGES),
                  "solve_eoll")

SolveEoll == ForStep("solve_eoll", "solve_eoll_pass", 4, "solve_ocll", "solve_ocll")

\* solve_ocll: one pass of "for _ in range(4)"
SolveOcllPass ==
    /\ pc = "solve_ocll"
    /\ \E w \in {Call(Frame(heap, cube_copy), "solve_ocll_pass", <<>>)} :
          /\ Ran(w, IF w.local = "while" THEN "solve_ocll_while"
                    ELSE IF w.local = "break" \/ i + 1 = 4 THEN "solve_cpll"
                    ELSE "solve_ocll")
          /\ i' = IF w.local = "continue" /\ i + 1 < 4 THEN i + 1 ELSE 0
    /\ passes' = 0
    /\ UNCHANGED << inner_i, solved_edges >>

\* one test of a while loop: a pass of its body while the condition holds,
\* then the way out
WhileStep(name, next) ==
    /\ pc = name
    /\ \E w \in {Call(Frame(heap, cube_copy), name, <<>>)} :
          /\ w.local = "while" => passes < MaxPasses
          /\ Ran(w, IF w.local = "while" THEN name ELSE next)
          /\ passes' = IF w.local = "while" THEN passes + 1 ELSE 0
    /\ UNCHANGED << i, inner_i, solved_edges >>

SolveOcllWhile == WhileStep("solve_ocll_while", "solve_cpll")

SolveCpll ==
    ForStep("solve_cpll", "solve_cpll_pass", 4, "solve_epll", "solve_cpll_else")

SolveCpllElse == Stage("solve_cpll_else", "solve_epll")

\* solve_epll: one pass of "for _ in range(4)"
SolveEpllPass ==
    /\ pc = "solve_epll"
    /\ \E w \in {Call(Frame(heap, cube_copy), "solve_epll_pass", <<>>)} :
          /\ Ran(w, IF i + 1 = 4 THEN "solve_epll_if" ELSE "solve_epll")
          /\ solved_edges' = IF w.ret = TRUE THEN solved_edges + 1 ELSE solved_edges
    /\ i' = IF i + 1 = 4 THEN 0 ELSE i + 1
    /\ UNCHANGED << inner_i, passes >>

\* solve_epll between its for loop and its while loops
SolveEpllIf ==
    /\ pc = "solve_epll_if"
    /\ \E w \in {Call(Frame(heap, cube_copy), "solve_epll_if", solved_edges)} :
          Ran(w, IF solved_edges # 4 THEN "solve_epll_while1" ELSE "solve_epll_while3")
    /\ UNCHANGED << i, inner_i, passes, solved_edges >>

SolveEpllWhile1 == WhileStep("solve_epll_while1", "solve_epll_while2")

SolveEpllWhile2 == WhileStep("solve_epll_while2", "solve_epll_while3")

SolveEpllWhile3 == WhileStep("solve_epll_while3", "return")

\* return scramble_to_moves(clean_moves(moves_to_scramble(
\*            cube_copy.get_move_history())))
ReturnSolution ==
    /\ pc = "return"
    /\ solution' = scramble_to_moves(clean_moves(moves_to_scramble(cube_copy.history)))
    /\ pc' = "returned"
    /\ UNCHANGED << heap, cube, calls, lookups, op, ret, err,
                    cube_copy, i, inner_i, passes, solved_edges, step_mode_data >>

\* the returned moves are applied to the cube that was given
ApplySolution ==
    /\ pc = "returned"
    /\ \E w \in {Call(Frame(heap, cube), "do_moves", Args(solution, FALSE, TRUE))} :
          Returned("apply_solution", solution, w)
    /\ pc' = "applied"
    /\ UNCHANGED << calls, lookups, cube_copy, i, inner_i, passes, solved_edges, solution,
                    step_mode_data >>

NextSolve ==
    \/ GenerateSolution
    \/ SolveCross
    \/ SolveCrossEnd
    \/ SolveCorners
    \/ SolveMiddleEdges
    \/ SolveEoll
    \/ SolveOcllPass
    \/ SolveOcllWhile
    \/ SolveCpll
    \/ SolveCpllElse
    \/ SolveEpllPass
    \/ SolveEpllIf
    \/ SolveEpllWhile1
    \/ SolveEpllWhile2
    \/ SolveEpllWhile3
    \/ ReturnSolution
    \/ ApplySolution

SpecSolve == InitSolve /\ [][NextSolve]_vars

\* generate_solution runs on: a step that can be taken is taken
FairSpecSolve == SpecSolve /\ WF_vars(NextSolve)

(***************************************************************************)
(* Properties                                                              *)
(***************************************************************************)
CubeFaces == heap[cube.faces]

LookupNames == {"get_edge", "get_corner", "get_sticker"}

DoMovesNames == {"do_moves", "do_moves_unrecorded"}

\* C1: for a cube reached from a new cube by face turns, applying the moves
\* generate_solution returned to that same cube with do_moves leaves it with
\* is_solved() true.
C1_SolutionSolves ==
    pc = "applied" => (err = NoError /\ is_solved(CubeFaces))

\* the solution of a scrambled cube, a hundred moves or more, has been
\* applied to it
C1_Witness ==
    /\ pc = "applied"
    /\ op.name = "apply_solution"
    /\ Len(solution) >= 100
    /\ is_solved(CubeFaces)

\* C2: generate_solution terminates on every cube reached by face turns: each
\* stage finishes, and each while loop of solve_ocll and solve_epll is left
\* within MaxPasses passes, so that the solver returns.
C2_Terminates == <>(pc = "returned")

\* the while loop of solve_ocll has turned U twice or more
C2_Witness ==
    /\ pc = "solve_ocll_while"
    /\ passes >= 2

\* C3: no step of generate_solution changes the cube it was given: the
\* caller's object and its six face grids stay as they were, all the work
\* being done on the copy.
C3_CallerCubeUnchanged ==
    [][pc' # "applied" => (cube' = cube /\ heap'[cube.faces] = CubeFaces)]_vars

\* generate_solution has returned: its copy is solved, the caller's cube is
\* still scrambled
C3_Witness ==
    /\ pc = "returned"
    /\ is_solved(heap[cube_copy.faces])
    /\ ~is_solved(CubeFaces)

\* the text holds face turns only (no y)
FaceTurnsOnly(text) ==
    Bind(scramble_to_moves(text),
         LAMBDA moves : \A k \in 1..Len(moves) : moves[k].face \in FaceNames)

\* C4: moves are invertible.  Whenever do_moves applies a sequence s of face
\* turns (bare, primed or doubled) to a cube, applying invert_moves(s) to the
\* result gives back exactly the six face grids the cube had before s.
C4_MovesInvertible ==
    [][(op'.name \in DoMovesNames /\ FaceTurnsOnly(op'.arg))
          => Faces(Call(Frame(heap', cube'), "do_moves",
                        Args(invert_moves(scramble_to_moves(op'.arg)), FALSE, TRUE)))
                 = CubeFaces]_vars

\* a scramble of many face turns has been applied to a cube that was already
\* turned away from the solved state
C4_Witness ==
    /\ op.name \in DoMovesNames
    /\ op.arg = ParserExample
    /\ calls = 2
    /\ ~is_solved(CubeFaces)

ColourCount(faces, colour) ==
    Cardinality({cell \in FaceNames \X (1..Size) \X (1..Size) :
                    faces[cell[1]][cell[2]][cell[3]] = colour})

WellFormed(faces) ==
    /\ DOMAIN faces = FaceNames
    /\ \A f \in FaceNames :
          /\ DOMAIN faces[f] = 1..Size
          /\ \A r \in 1..Size : DOMAIN faces[f][r] = 1..Size

\* C5: in every state reached from a new cube by face turns and y
\* reorientations the cube has six 3x3 faces, 54 stickers, and each of the six
\* colours on exactly 9 of them.
C5_NineOfEachColour ==
    /\ WellFormed(CubeFaces)
    /\ \A colour \in Colours : ColourCount(CubeFaces, colour) = Size * Size

\* a reorientation has just been applied to a cube that is not solved
C5_Witness ==
    /\ op.name \in DoMovesNames
    /\ op.arg = <<"y">>
    /\ calls = 2
    /\ ~is_solved(CubeFaces)

\* C6: on a plain Cube a piece lookup that returns leaves all six face grids
\* exactly as they were before the call.
C6_PlainLookupKeepsFaces ==
    [][(op'.name \in LookupNames /\ cube.cls = "Cube" /\ err' = NoError)
          => heap'[cube'.faces] = CubeFaces]_vars

\* C7: on a HistoryCube a piece lookup that returns leaves all six face grids
\* exactly as they were before the call.
C7_HistoryLookupKeepsFaces ==
    [][(op'.name \in LookupNames /\ cube.cls = "HistoryCube" /\ err' = NoError)
          => heap'[cube'.faces] = CubeFaces]_vars

\* a corner whose setup is two moves has been looked up on a scrambled
\* HistoryCube
C7_Witness ==
    /\ cube.cls = "HistoryCube"
    /\ op = [name |-> "get_corner", arg |-> <<"D", "F", "L">>]
    /\ err = NoError
    /\ ~is_solved(CubeFaces)

\* C8: a piece lookup on a HistoryCube leaves the recorded trace as it was:
\* the setup and teardown moves are never appended.
C8_LookupKeepsTrace ==
    [][(op'.name \in LookupNames /\ cube.cls = "HistoryCube")
          => cube'.history = cube.history]_vars

\* a sticker has been looked up on a HistoryCube whose trace holds the moves
\* of an earlier recorded do_moves
C8_Witness ==
    /\ cube.cls = "HistoryCube"
    /\ op.name = "get_sticker"
    /\ err = NoError
    /\ Len(cube.history) > 1

\* The cells of each slot: for a slot label, the <<row, column>> of its
\* sticker on the face named by each letter of the label.  U has row 1 at B
\* and column 1 at L; F, L, B, R have row 1 at U and columns running L-F-R-B
\* around the cube; D has row 1 at F and column 1 at L.
EdgeCells ==
    << << <<"U", "F">>, << <<3, 2>>, <<1, 2>> >> >>,
       << <<"U", "L">>, << <<2, 1>>, <<1, 2>> >> >>,
       << <<"U", "R">>, << <<2, 3>>, <<1, 2>> >> >>,
       << <<"U", "B">>, << <<1, 2>>, <<1, 2>> >> >>,
       << <<"L", "B">>, << <<2, 1>>, <<2, 3>> >> >>,
       << <<"L", "D">>, << <<3, 2>>, <<2, 1>> >> >>,
       << <<"L", "F">>, << <<2, 3>>, <<2, 1>> >> >>,
       << <<"R", "B">>, << <<2, 3>>, <<2, 1>> >> >>,
       << <<"R", "D">>, << <<3, 2>>, <<2, 3>> >> >>,
       << <<"R", "F">>, << <<2, 1>>, <<2, 3>> >> >>,
       << <<"D", "B">>, << <<3, 2>>, <<3, 2>> >> >>,
       << <<"D", "F">>, << <<1, 2>>, <<3, 2>> >> >> >>

CornerCells ==
    << << <<"U", "F", "R">>, << <<3, 3>>, <<1, 3>>, <<1, 1>> >> >>,
       << <<"D", "F", "R">>, << <<1, 3>>, <<3, 3>>, <<3, 1>> >> >>,
       << <<"D", "B", "R">>, << <<3, 3>>, <<3, 1>>, <<3, 3>> >> >>,
       << <<"U", "R", "B">>, << <<1, 3>>, <<1, 3>>, <<1, 1>> >> >>,
       << <<"U", "L", "F">>, << <<3, 1>>, <<1, 3>>, <<1, 1>> >> >>,
       << <<"U", "B", "L">>, << <<1, 1>>, <<1, 3>>, <<1, 1>> >> >>,
       << <<"D", "F", "L">>, << <<1, 1>>, <<3, 1>>, <<3, 3>> >> >>,
       << <<"D", "B", "L">>, << <<3, 1>>, <<3, 3>>, <<3, 1>> >> >> >>

\* the colour on the j-th face of the slot named by label
SlotColour(faces, cells, label, j) ==
    faces[label[j]][Get(cells, label)[j][1]][Get(cells, label)[j][2]]

\* the mapping a lookup of the slot should return: each letter of the label
\* with the colour on that face of the slot
SlotInfo(faces, cells, label) ==
    [j \in 1..Len(label) |-> <<label[j], SlotColour(faces, cells, label, j)>>]

Letters(label) == {label[j] : j \in 1..Len(label)}

\* the table key that spells the same slot as the sticker label
SlotOf(cells, sticker) ==
    CHOOSE label \in {cells[j][1] : j \in 1..Len(cells)} :
        Letters(label) = Letters(sticker)

\* the colour on the face named by the sticker label's first letter
StickerColour(faces, cells, sticker) ==
    LET label == SlotOf(cells, sticker)
    IN  SlotColour(faces, cells, label, CHOOSE j \in 1..Len(label) : label[j] = sticker[1])

\* C9: for each of the 12 edge labels and every cube state, get_edge(label)
\* returns the mapping that sends each letter of the label to the colour that
\* was, when the call was made, on that face of the edge in the slot the label
\* names.
C9_GetEdgeReadsSlot ==
    [][op'.name = "get_edge" =>
          /\ err' = NoError
          /\ ret' = SlotInfo(CubeFaces, EdgeCells, op'.arg)]_vars

\* the edge in slot RD has been looked up on a scrambled cube
C9_Witness ==
    /\ op = [name |-> "get_edge", arg |-> <<"R", "D">>]
    /\ err = NoError
    /\ ~is_solved(CubeFaces)

\* C10: for each of the 8 corner labels and every cube state, get_corner(label)
\* returns the mapping that sends each letter of the label to the colour on
\* that face of the corner in the slot the label names, and get_sticker of any
\* spelling of a corner slot returns the colour on the face named by its first
\* letter.
C10_GetCornerReadsSlot ==
    [][/\ op'.name = "get_corner" =>
             /\ err' = NoError
             /\ ret' = SlotInfo(CubeFaces, CornerCells, op'.arg)
       /\ (op'.name = "get_sticker" /\ Len(op'.arg) = 3) =>
             /\ err' = NoError
             /\ ret' = StickerColour(CubeFaces, CornerCells, op'.arg)]_vars

(***************************************************************************)
(* scramble/parser.py and scramble/cleaner.py called on their own: a text  *)
(* is given, and the functions are applied to it and to their results.     *)
(***************************************************************************)
\* nothing, ' or 2 after the face letter
Modifiers == {<<>>, <<"'">>, <<"2">>}

\* two tokens of one face, every face and every ordered pair of modifiers
SamePairTexts ==
    {<<X>> \o m1 \o <<" ">> \o <<X>> \o m2 :
        X \in FaceNames, m1 \in Modifiers, m2 \in Modifiers}

\* the text of the example run of scramble/cleaner.py
MainExample == <<"U", " ", "U", " ", "D", " ", "D", " ", "U", " ", "U", "2">>

\* the examples of the docstring and of the __main__ block of
\* scramble/cleaner.py
CleanerDocTexts == {<<"R", " ", "R", " ", "U", " ", "U", "'">>, <<"F", " ", "F", "'", " ", "U", "2", " ", "U", "2">>, <<"R", "2", " ", "R">>, MainExample}

\* texts whose tokens are separated and surrounded by runs of whitespace
SpacedTexts ==
    {<<"R", " ", " ", "U", "'", " ", " ", " ", "F", "2">>, <<" ", "R", " ", "U", "'", " ", "F", "2">>, <<"R", " ", "U", "'", " ", "F", "2", " ", " ">>,
     <<"R", "\t", "U", "'", "\n", "F", "2", "\n">>}

\* texts with a token whose first character is no face letter
MalformedTexts == {<<"X">>, <<"R", " ", "U", " ", "X", " ", "F">>, <<"r", " ", "U">>, <<"U", " ", "2">>, <<"F", " ", "'", "R">>, <<"R", " ", "Q", "2", " ", "U">>}

\* tokens with more than one modifier
OverlongTexts == {<<"R", "2", "'">>, <<"U", " ", "D", "'", "2", " ", "F">>, <<"F", "'", "'", " ", "L", "2", " ", "B", "2", "2">>}

\* texts in which combining a pair of moves brings two moves of one face
\* together, and runs of three and four moves of one face
ExposedPairTexts ==
    {<<"R", " ", "U", " ", "U", "'", " ", "R", "'">>, <<"R", " ", "U", "2", " ", "U", "2", " ", "R">>, <<"R", " ", "U", " ", "D", " ", "D", "'", " ", "U", "'", " ", "R", "'">>, <<"U", " ", "R", " ", "R", "'", " ", "U", " ", "R">>,
     <<"R", " ", "R", " ", "R">>, <<"R", " ", "R", " ", "R", " ", "R">>}

FunctionTexts ==
    {<<>>, ParserExample, CleanerExample}
        \cup MoveTokens \cup SamePairTexts \cup CleanerDocTexts \cup SpacedTexts
        \cup MalformedTexts \cup OverlongTexts \cup ExposedPairTexts

InitText ==
    /\ heap = [r \in Refs |-> NewFaces]
    /\ cube = NewObject("Cube", 1)
    /\ calls = 0
    /\ lookups = 0
    /\ \E text \in FunctionTexts : op = [name |-> "text", arg |-> text]
    /\ ret = None
    /\ err = NoError
    /\ IdleSolver
    /\ step_mode_data = StepModeOff

\* name(arg) returned value; the functions of the parser and the cleaner
\* touch no cube
FunctionReturned(name, arg, value) ==
    /\ op' = [name |-> name, arg |-> arg]
    /\ ret' = value
    /\ err' = NoError
    /\ UNCHANGED << heap, cube, calls, lookups, solverVars, step_mode_data >>

\* scramble_to_moves(text)
CallScrambleToMoves ==
    /\ op.name = "text"
    /\ FunctionReturned("scramble_to_moves", op.arg, scramble_to_moves(op.arg))

\* clean_moves(text)
CallCleanMoves ==
    /\ op.name = "text"
    /\ FunctionReturned("clean_moves", op.arg, clean_moves(op.arg))

\* invert_moves(moves), for the moves scramble_to_moves or invert_moves returned
CallInvertMoves ==
    /\ op.name \in {"scramble_to_moves", "invert_moves"}
    /\ FunctionReturned("invert_moves", ret, invert_moves(ret))

\* moves_to_scramble(moves), for the moves scramble_to_moves or invert_moves
\* returned
CallMovesToScramble ==
    /\ op.name \in {"scramble_to_moves", "invert_moves"}
    /\ FunctionReturned("moves_to_scramble", ret, moves_to_scramble(ret))

NextText ==
    \/ CallScrambleToMoves
    \/ CallCleanMoves
    \/ CallInvertMoves
    \/ CallMovesToScramble

SpecText == InitText /\ [][NextText]_vars

(***************************************************************************)
(* Properties of the notation                                              *)
(***************************************************************************)
\* the faces a move can name
MoveFaces == FaceNames \cup {"y"}

\* the text has a token whose first character is no face letter and not y
HasMalformedToken(text) ==
    \E k \in 1..Len(Split(text)) : Split(text)[k][1] \notin MoveFaces

\* C11: scramble_to_moves fails with an error for every text that has a token
\* whose first character is not one of U, D, F, B, L, R, y, and never returns
\* a Move whose face lies outside that set.
C11_ParserRejectsMalformed ==
    [][op'.name = "scramble_to_moves" =>
          /\ HasMalformedToken(op'.arg) => err' # NoError
          /\ err' = NoError => \A k \in 1..Len(ret') : ret'[k].face \in MoveFaces]_vars

\* the positions of text that whitespace normalisation keeps: every
\* character of a token, and the first whitespace of a run between two tokens
KeptPositions(text) ==
    {k \in 1..Len(text) :
        \/ text[k] \notin Whitespace
        \/ /\ k > 1
           /\ text[k - 1] \notin Whitespace
           /\ \E j \in (k + 1)..Len(text) : text[j] \notin Whitespace}

\* text with every run of whitespace between tokens made one space and the
\* whitespace at its ends dropped
Normalised(text) ==
    [n \in 1..Cardinality(KeptPositions(text)) |->
        LET k == CHOOSE p \in KeptPositions(text) :
                     Cardinality({j \in KeptPositions(text) : j <= p}) = n
        IN  IF text[k] \in Whitespace THEN " " ELSE text[k]]

\* text[k] is the first character of a token
StartsToken(text, k) == text[k] \notin Whitespace /\ (k = 1 \/ text[k - 1] \in Whitespace)

\* every token of text is a face letter (or y), alone or followed by exactly
\* one of ' and 2
WellFormedText(text) ==
    \A k \in 1..Len(text) :
        \/ text[k] \in Whitespace
        \/ StartsToken(text, k) /\ text[k] \in MoveFaces
        \/ k > 1 /\ StartsToken(text, k - 1) /\ text[k] \in {"'", "2"}

\* C14: for every well-formed text s, moves_to_scramble(scramble_to_moves(s))
\* is s with its runs of whitespace normalised to single spaces
C14_RoundTrip ==
    [][op.name = "scramble_to_moves" /\ op'.name = "moves_to_scramble"
           /\ WellFormedText(op.arg) =>
          ret' = Normalised(op.arg)]_vars

\* the moves of a text with runs of spaces, tabs and line ends have been
\* written back
C14_Witness ==
    /\ op.name = "moves_to_scramble"
    /\ op.arg = <<Move("R", FALSE, FALSE), Move("U", TRUE, FALSE), Move("F", FALSE, TRUE)>>
    /\ ret = <<"R", " ", "U", "'", " ", "F", "2">>

\* moves in reverse order, each with its invert flag flipped and its face
\* and double flag kept
IsInverseOf(a, b) ==
    /\ Len(a) = Len(b)
    /\ \A k \in 1..Len(a) :
          /\ a[k].face = b[Len(b) + 1 - k].face
          /\ a[k].invert = ~b[Len(b) + 1 - k].invert
          /\ a[k].double = b[Len(b) + 1 - k].double

\* C15: invert_moves reverses the order, flips each invert flag and keeps
\* each double flag, and invert_moves(invert_moves(m)) equals m for every
\* move sequence m, whatever its faces and flags
C15_InvertIsInvolution ==
    [][op'.name = "invert_moves" =>
          /\ IsInverseOf(ret', op'.arg)
          /\ op.name = "invert_moves" => ret' = op.arg]_vars

\* a sequence with a move that is both inverted and double has been
\* inverted twice
C15_Witness ==
    /\ op.name = "invert_moves"
    /\ ret = <<Move("U", FALSE, FALSE), Move("D", TRUE, TRUE), Move("F", FALSE, FALSE)>>
    /\ op.arg = <<Move("F", TRUE, FALSE), Move("D", FALSE, TRUE), Move("U", TRUE, FALSE)>>

\* the combination table of two moves of one face, by their modifiers: the
\* modifier of the move they make together, None where they cancel
CombinationTable ==
    << << <<>>, <<>>, <<"2">> >>,     << <<>>, <<"'">>, None >>,      << <<>>, <<"2">>, <<"'">> >>,
       << <<"'">>, <<>>, None >>,     << <<"'">>, <<"'">>, <<"2">> >>, << <<"'">>, <<"2">>, <<>> >>,
       << <<"2">>, <<>>, <<"'">> >>,  << <<"2">>, <<"'">>, <<>> >>,    << <<"2">>, <<"2">>, None >> >>

\* the text the table gives for the tokens X m1 and X m2
TableText(X, m1, m2) ==
    LET row == CombinationTable[CHOOSE k \in 1..Len(CombinationTable) :
                                    CombinationTable[k][1] = m1 /\ CombinationTable[k][2] = m2]
    IN  IF row[3] = None THEN <<>> ELSE <<X>> \o row[3]

\* C16: for every face letter X and every ordered pair of modifiers,
\* clean_moves of the two tokens of X returns what the combination table
\* gives (normal+normal = X2, normal+prime and prime+normal = empty,
\* normal+double and double+normal = X', prime+prime = X2, prime+double and
\* double+prime = X, double+double = empty), and the text F F' U2 U2 is
\* cleaned to the empty text
C16_PairsFollowTable ==
    [][op'.name = "clean_moves" =>
          /\ \A X \in FaceNames, m1 \in Modifiers, m2 \in Modifiers :
                op'.arg = <<X>> \o m1 \o <<" ">> \o <<X>> \o m2 =>
                    ret' = TableText(X, m1, m2)
          /\ op'.arg = <<"F", " ", "F", "'", " ", "U", "2", " ", "U", "2">> => ret' = <<>>]_vars

\* the double and the single turn of R have been cleaned to R'
C16_Witness ==
    /\ op.name = "clean_moves"
    /\ op.arg = <<"R", "2", " ", "R">>
    /\ ret = <<"R", "'">>

\* C17 as stated: clean_moves("U U D D U U2") is "U2 D2 U2"
C17_MainExampleStated ==
    [][op'.name = "clean_moves" /\ op'.arg = MainExample => ret' = <<"U", "2", " ", "D", "2", " ", "U", "2">>]_vars

\* C17: clean_moves("U U D D U U2") is "U2 D2 U'": U U and D D make the
\* double turns, and the single and the double turn of U that follow make U'
C17_MainExample ==
    [][op'.name = "clean_moves" /\ op'.arg = MainExample => ret' = <<"U", "2", " ", "D", "2", " ", "U", "'">>]_vars

\* the example text has been cleaned
C17_Witness ==
    /\ op.name = "clean_moves"
    /\ op.arg = MainExample
    /\ Len(ret) = 8

(***************************************************************************)
(* cube/cube.py and cube/history_cube.py called with the arguments of an   *)
(* arbitrary caller: text that is no notation, a list of Move in place of  *)
(* text, a label that names no piece.                                      *)
(***************************************************************************)
\* the texts given to do_moves: empty, well formed, and with a token that
\* is no move
InputTexts == {<<>>, <<"R">>, <<"U", "'">>, <<"F", "2", " ", "y">>} \cup MalformedTexts

\* the lists of Move given to do_moves
InputLists ==
    {<<>>, <<Move("R", FALSE, FALSE)>>,
     <<Move("U", TRUE, FALSE), Move("F", FALSE, TRUE)>>}

\* labels of which no permutation is a key of EDGE_TO_UF or CORNER_TO_UFR
UnknownLabels == {<<>>, <<"X", "Y">>, <<"U", "D">>, <<"X", "Y", "Z">>, <<"U", "F", "B">>}

\* cube.do_moves(moves) / cube.do_moves(moves, save_history), moves a list
CallDoMovesList(moves, save_history) ==
    /\ calls < MaxCalls
    /\ cube.cls = "Cube" => save_history
    /\ \E w \in {Call(Frame(heap, cube), "do_moves", Args(moves, FALSE, save_history))} :
          Returned(IF save_history THEN "do_moves_list" ELSE "do_moves_list_unrecorded",
                   moves, w)
    /\ calls' = calls + 1
    /\ UNCHANGED << lookups, solverVars, step_mode_data >>

NextInputs ==
    \/ \E cls \in Classes : NewCube(cls)
    \/ \E text \in InputTexts, save_history \in BOOLEAN : CallDoMoves(text, save_history)
    \/ \E moves \in InputLists, save_history \in BOOLEAN : CallDoMovesList(moves, save_history)
    \/ \E piece \in UnknownLabels : CallGetEdge(piece)
    \/ \E piece \in UnknownLabels : CallGetCorner(piece)
    \/ \E sticker \in UnknownLabels : CallGetSticker(sticker)

SpecInputs == Init /\ [][NextInputs]_vars

\* C12: when do_moves is given text with a token whose first character is
\* none of U, D, F, B, L, R, y, the call fails and leaves the six face grids
\* and the trace as they were, whatever precedes the token
C12_MalformedTextChangesNothing ==
    [][op'.name \in DoMovesNames /\ HasMalformedToken(op'.arg) =>
          /\ err' # NoError
          /\ heap' = heap
          /\ cube' = cube]_vars

\* no permutation of the characters of label is a key of either table
NamesNoPiece(label) ==
    \A k \in 1..Len(permutations(label)) : ~IsPiece(permutations(label)[k])

\* C13: get_sticker, get_edge and get_corner called with a label of which no
\* permutation is a key of EDGE_TO_UF or CORNER_TO_UFR fail with an error, and
\* the failed call leaves the face grids and the trace as they were
C13_UnknownLabelFails ==
    [][op'.name \in LookupNames /\ NamesNoPiece(op'.arg) =>
          /\ err' \in {"ValueError", "KeyError"}
          /\ heap' = heap
          /\ cube' = cube]_vars

\* a turned HistoryCube with a trace has refused the label UD
C13_Witness ==
    /\ op.name \in LookupNames
    /\ op.arg = <<"U", "D">>
    /\ err # NoError
    /\ cube.cls = "HistoryCube"
    /\ cube.history # <<>>
    /\ ~is_solved(CubeFaces)

\* the names under which a do_moves call is kept in op, by the kind of its
\* argument and by save_history
TextCallNames == {"do_moves", "do_moves_unrecorded"}

RecordingCallNames == {"do_moves", "do_moves_list"}

AnyDoMovesNames == {"do_moves", "do_moves_unrecorded", "do_moves_list", "do_moves_list_unrecorded"}

\* the Move values of the argument of the call kept in o
GivenMoves(o) == IF o.name \in TextCallNames THEN scramble_to_moves(o.arg) ELSE o.arg

\* C18: a do_moves call on a HistoryCube that returns turns the faces as
\* Cube.do_moves turns them, and with save_history=True appends exactly the
\* given moves (text parsed into Move values first), in order, to the end of
\* the trace, the earlier trace staying as its prefix; with save_history=False
\* it leaves the trace as it was.  A new HistoryCube has an empty trace, so
\* the trace is the concatenation, in call order, of the arguments of the
\* recording calls.
C18_TraceIsRecordedCalls ==
    [][/\ op'.name = "new" => cube'.history = <<>>
       /\ (cube.cls = "HistoryCube" /\ op'.name \in AnyDoMovesNames /\ err' = NoError) =>
             /\ cube'.history =
                    IF op'.name \in RecordingCallNames
                    THEN cube.history \o GivenMoves(op')
                    ELSE cube.history
             /\ heap'[cube'.faces] =
                    Faces(DoMovesList(Frame(heap, cube), GivenMoves(op')))]_vars

\* a HistoryCube that recorded one call has made a second, unrecorded call
\* with a list of two moves
C18_Witness ==
    /\ cube.cls = "HistoryCube"
    /\ op.name = "do_moves_list_unrecorded"
    /\ Len(op.arg) = 2
    /\ err = NoError
    /\ calls = 2
    /\ cube.history # <<>>

\* the face whose centre has the colour (the face the colour belongs to,
\* wherever a y reorientation has put it)
FaceOfColour(faces, colour) ==
    CHOOSE f \in FaceNames : faces[f][2][2] = colour

\* the faces the piece in the slot named by cells[k] belongs to
HomeFaces(faces, cells, k) ==
    {FaceOfColour(faces, SlotColour(faces, cells, cells[k][1], j)) :
         j \in 1..Len(cells[k][1])}

\* the index of the slot between the faces of home, 0 if there is none
SlotBetween(cells, home) ==
    IF \E h \in 1..Len(cells) : Letters(cells[h][1]) = home
    THEN CHOOSE h \in 1..Len(cells) : Letters(cells[h][1]) = home
    ELSE 0

\* the index of the slot that is the home of the piece in slot k, 0 if the
\* colours in slot k are those of no piece
HomeSlot(faces, cells, k) == SlotBetween(cells, HomeFaces(faces, cells, k))

\* the cube read as the set of pairs <<slot, home slot of the piece in it>>
PiecePermutation(faces, cells) ==
    {<<k, HomeSlot(faces, cells, k)>> : k \in 1..Len(cells)}

\* every slot is the home of one of the pieces
IsPermutation(p) == {pair[2] : pair \in p} = 1..Cardinality(p)

\* the parity of a permutation: the number of its inversions, modulo 2
Parity(p) ==
    Cardinality({i2 \in p \X p : i2[1][1] < i2[2][1] /\ i2[1][2] > i2[2][2]}) % 2

\* edges and corners are permutations of the pieces, of one parity
SameParity(edges, corners) ==
    /\ IsPermutation(edges)
    /\ IsPermutation(corners)
    /\ Parity(edges) = Parity(corners)

\* C19: in every state reached from a new cube by face turns (and y
\* reorientations), the 12 edge slots hold a permutation of the 12 edge
\* pieces, the 8 corner slots a permutation of the 8 corner pieces, and the
\* two permutations have the same parity
C19_ParityInvariant ==
    SameParity(PiecePermutation(CubeFaces, EdgeCells),
               PiecePermutation(CubeFaces, CornerCells))

\* after two calls a cube stands an odd number of quarter turns from solved
C19_Witness ==
    /\ op.name \in DoMovesNames
    /\ calls = 2
    /\ Parity(PiecePermutation(CubeFaces, EdgeCells)) = 1
    /\ Parity(PiecePermutation(CubeFaces, CornerCells)) = 1

\* the colour of each face of a new cube, by the face names of cube/cube.py
SolvedColours ==
    << <<"U", WHITE>>, <<"F", GREEN>>, <<"L", ORANGE>>,
       <<"B", BLUE>>, <<"R", RED>>, <<"D", YELLOW>> >>

\* every cell of every face has the colour SolvedColours gives the face
SolvedAsNew(faces) ==
    /\ is_solved(faces)
    /\ \A k \in 1..Len(SolvedColours) :
          \A r \in 1..Size, c \in 1..Size :
              faces[SolvedColours[k][1]][r][c] = SolvedColours[k][2]

\* C20: a newly created cube is solved, with U white, F green, L orange,
\* B blue, R red and D yellow, and do_moves with an empty list of moves or
\* with the empty text returns and leaves the cube solved and unchanged
C20_NewCubeSolved ==
    [][/\ op'.name = "new" => SolvedAsNew(heap'[cube'.faces])
       /\ (op'.name \in AnyDoMovesNames /\ op'.arg = <<>>) =>
             /\ err' = NoError
             /\ heap' = heap
             /\ cube' = cube
             /\ calls = 0 => SolvedAsNew(heap'[cube'.faces])]_vars

\* the first call on a new Cube was do_moves with the empty list
C20_Witness ==
    /\ cube.cls = "Cube"
    /\ op = [name |-> "do_moves_list", arg |-> <<>>]
    /\ calls = 1
    /\ err = NoError
    /\ is_solved(CubeFaces)

(***************************************************************************)
(* Properties of the stages of the solver                                  *)
(***************************************************************************)
\* the faces dict generate_solution works on
CopyFaces == heap[cube_copy.faces]

SideFaces == {"F", "L", "B", "R"}

\* the centres are where Cube.__init__ put them
CentresAsNew(faces) ==
    \A k \in 1..Len(SolvedColours) : faces[SolvedColours[k][1]][2][2] = SolvedColours[k][2]

\* the four edge cells of a face grid
EdgeCellsOf(grid) == {grid[1][2], grid[2][1], grid[2][3], grid[Size][2]}

\* the cells of a face grid
CellsOf(grid) == {grid[r][c] : r \in 1..Size, c \in 1..Size}

\* every cell of rows lo..Size of each side face has the colour of the
\* face's centre
RowsSolved(faces, lo) ==
    \A f \in SideFaces : \A r \in lo..Size, c \in 1..Size : faces[f][r][c] = faces[f][2][2]

\* the cross: the four D edge cells yellow, the bottom-middle sticker of each
\* side face of the colour of its centre
CrossSolved(faces) ==
    /\ CentresAsNew(faces)
    /\ EdgeCellsOf(faces["D"]) = {YELLOW}
    /\ \A f \in SideFaces : faces[f][Size][2] = faces[f][2][2]

\* the bottom layer
FirstLayerSolved(faces) ==
    /\ CentresAsNew(faces)
    /\ CellsOf(faces["D"]) = {YELLOW}
    /\ RowsSolved(faces, Size)

\* the first two layers
TwoLayersSolved(faces) ==
    /\ CentresAsNew(faces)
    /\ CellsOf(faces["D"]) = {YELLOW}
    /\ RowsSolved(faces, 2)

\* C21: when solve_cross returns, the four D edge cells are yellow and the
\* bottom-middle sticker of each of F, L, B, R has the colour of that face's
\* centre (green, orange, blue, red)
C21_CrossSolved ==
    [][pc = "solve_cross_end" /\ pc' = "solve_corners" =>
          err' = NoError /\ CrossSolved(heap'[cube_copy'.faces])]_vars

\* solve_cross has returned on the copy of a cube that had no edge of the
\* cross in place
C21_Witness ==
    /\ pc = "solve_corners"
    /\ i = 0
    /\ inner_i = 0
    /\ CrossSolved(CopyFaces)
    /\ \A f \in SideFaces : CubeFaces[f][Size][2] # CubeFaces[f][2][2]

\* C22: when solve_corners returns after solve_cross, the bottom layer is
\* solved: the nine D cells are yellow and the bottom row of each of F, L, B,
\* R has the colour of that face's centre
C22_FirstLayerSolved ==
    [][pc = "solve_corners" /\ pc' = "solve_middle_edges" =>
          err' = NoError /\ FirstLayerSolved(heap'[cube_copy'.faces])]_vars

\* solve_corners has returned on the copy of a cube that had no bottom
\* corner cell yellow
C22_Witness ==
    /\ pc = "solve_middle_edges"
    /\ i = 0
    /\ inner_i = 0
    /\ FirstLayerSolved(CopyFaces)
    /\ YELLOW \notin {CubeFaces["D"][1][1], CubeFaces["D"][1][Size],
                      CubeFaces["D"][Size][1], CubeFaces["D"][Size][Size]}

\* C23: when solve_middle_edges returns after solve_cross and solve_corners,
\* the first two layers are solved: the D face is yellow and the middle and
\* bottom rows of each of F, L, B, R have the colour of that face's centre
C23_TwoLayersSolved ==
    [][pc = "solve_middle_edges" /\ pc' = "solve_eoll" =>
          err' = NoError /\ TwoLayersSolved(heap'[cube_copy'.faces])]_vars

\* solve_middle_edges has returned on the copy of a cube that had no side
\* face with its middle row in place
C23_Witness ==
    /\ pc = "solve_eoll"
    /\ i = 0
    /\ TwoLayersSolved(CopyFaces)
    /\ \A f \in SideFaces : \E c \in 1..Size : CubeFaces[f][2][c] # CubeFaces[f][2][2]

\* the four edge cells of U are white
TopEdgesWhite(faces) == EdgeCellsOf(faces["U"]) = {WHITE}

\* the last n moves of the trace of generate_solution's cube
LastMoves(object, n) ==
    SubSeq(object.history, Len(object.history) + 1 - n, Len(object.history))

\* the faces of the caller's cube after the first n recorded moves
Replayed(n) == Faces(DoMovesList(Frame(heap, cube), SubSeq(cube_copy'.history, 1, n)))

TurnU == Move("U", FALSE, FALSE)

\* C24: solve_eoll, entered with the first two layers solved, finds one of
\* its three patterns within its four attempts unless the four top edges are
\* oriented already; when it returns the four U edge cells are white and the
\* first two layers are still solved; with the four edges oriented every
\* attempt is a U turn, and the four of them leave the cube as it was
C24_EollOrientsEdges ==
    [][pc = "solve_eoll" =>
          /\ TopEdgesWhite(CopyFaces) =>
                /\ ~Call(Frame(heap, cube_copy), "solve_eoll_pass", <<>>).brk
                /\ cube_copy'.history = cube_copy.history \o <<TurnU>>
          /\ pc' = "solve_ocll" =>
                /\ err' = NoError
                /\ TopEdgesWhite(heap'[cube_copy'.faces])
                /\ TwoLayersSolved(heap'[cube_copy'.faces])
                /\ ~Call(Frame(heap, cube_copy), "solve_eoll_pass", <<>>).brk =>
                      /\ TopEdgesWhite(CopyFaces)
                      /\ LastMoves(cube_copy', 4) = <<TurnU, TurnU, TurnU, TurnU>>
                      /\ heap'[cube_copy'.faces]
                             = Replayed(Len(cube_copy'.history) - 4)]_vars

\* solve_eoll has returned after its algorithm for two opposite edges
C24_Witness ==
    /\ pc = "solve_ocll"
    /\ i = 0
    /\ passes = 0
    /\ Len(cube_copy.history) >= 6
    /\ moves_to_scramble(LastMoves(cube_copy, 6)) = <<"F", " ", "R", " ", "U", " ", "R", "'", " ", "U", "'", " ", "F", "'">>
    /\ TopEdgesWhite(CopyFaces)

\* the trace of generate_solution's cube ends with the moves of text
EndsWith(text) ==
    /\ Len(cube_copy.history) >= Len(scramble_to_moves(text))
    /\ LastMoves(cube_copy, Len(scramble_to_moves(text))) = scramble_to_moves(text)

\* C25: when solve_ocll returns after stages 1-4, the nine U cells are white
\* and the first two layers are still solved, whichever of its branches (H or
\* Pi after the while loop, S or AS, Headlights or Sidebars, Fish) was taken
C25_OcllOrientsCorners ==
    [][(pc \in {"solve_ocll", "solve_ocll_while"} /\ pc' = "solve_cpll") =>
          /\ err' = NoError
          /\ CellsOf(heap'[cube_copy'.faces]["U"]) = {WHITE}
          /\ TwoLayersSolved(heap'[cube_copy'.faces])]_vars

\* solve_ocll has returned after the algorithm of its Pi branch
C25_Witness ==
    /\ pc = "solve_cpll"
    /\ i = 0
    /\ EndsWith(Get(solve_ocll_OCLLS, <<"P", "i">>))
    /\ CellsOf(CopyFaces["U"]) = {WHITE}

\* on each side face the two top corner stickers have one colour
TopCornersPermuted(faces) == \A f \in SideFaces : faces[f][1][1] = faces[f][1][Size]

\* C26: when solve_cpll returns after stages 1-5, the four top corners are
\* permuted correctly relative to one another, the U face is still white and
\* the first two layers are still solved, on the branch that applies the
\* algorithm once, on the one that finds the corners in place, and on the
\* else branch that applies the algorithm twice with a U between
C26_CpllPermutesCorners ==
    [][(pc \in {"solve_cpll", "solve_cpll_else"} /\ pc' = "solve_epll") =>
          /\ err' = NoError
          /\ TopCornersPermuted(heap'[cube_copy'.faces])
          /\ CellsOf(heap'[cube_copy'.faces]["U"]) = {WHITE}
          /\ TwoLayersSolved(heap'[cube_copy'.faces])]_vars

\* solve_cpll has returned from its else branch
C26_Witness ==
    /\ pc = "solve_epll"
    /\ i = 0
    /\ solved_edges = 0
    /\ EndsWith(solve_cpll_alg \o <<" ", "U", " ">> \o solve_cpll_alg)
    /\ TopCornersPermuted(CopyFaces)

(***************************************************************************)
(* Properties of the optimizer                                             *)
(***************************************************************************)
\* the scrambles of the cubes a text and its cleaned form are compared on
ProbeScrambles == {<<>>, <<"R", " ", "U", " ", "F">>, <<"L", "2", " ", "D", "'", " ", "B">>, ParserExample}

\* the faces of a new cube after do_moves(scramble) and then do_moves(text)
FacesAfter(scramble, text) ==
    Faces(Do(Do(Frame([r \in Refs |-> NewFaces], NewObject("Cube", 1)), scramble), text))

\* the number of tokens of text
TokenCount(text) == Len(Split(text))

\* text is a sequence of well-formed tokens of the six faces
IsFaceTurnText(text) == WellFormedText(text) /\ FaceTurnsOnly(text)

\* C27: for every sequence s of well-formed face-turn tokens and every cube,
\* applying clean_moves(s) to the cube gives the same face grids as applying
\* s, and clean_moves(s) has no more tokens than s
C27_CleanPreservesMeaning ==
    [][op'.name = "clean_moves" /\ IsFaceTurnText(op'.arg) =>
          /\ TokenCount(ret') <= TokenCount(op'.arg)
          /\ \A scramble \in ProbeScrambles :
                FacesAfter(scramble, ret') = FacesAfter(scramble, op'.arg)]_vars

\* the 20 moves of the cleaner's example have been cleaned to fewer
C27_Witness ==
    /\ op.name = "clean_moves"
    /\ op.arg = CleanerExample
    /\ TokenCount(ret) < TokenCount(op.arg)
    /\ ret # <<>>

\* no two adjacent tokens of text have the same face letter
FullyMerged(text) ==
    \A k \in 1..(TokenCount(text) - 1) : Split(text)[k][1] # Split(text)[k + 1][1]

\* C28: for every sequence s of well-formed tokens, no two adjacent tokens
\* of clean_moves(s) have the same face letter, also where a cancellation
\* brings two such tokens together, and clean_moves(clean_moves(s)) is
\* clean_moves(s)
C28_CleanIsFullyMerged ==
    [][op'.name = "clean_moves" /\ IsFaceTurnText(op'.arg) =>
          /\ FullyMerged(ret')
          /\ clean_moves(ret') = ret']_vars

(***************************************************************************)
(* Properties of the trace and of the reorientation                        *)
(***************************************************************************)
\* the faces a plain Cube with the faces of the caller's cube has after
\* do_moves(moves)
ReplayedOnCube(moves) == Faces(DoMovesList(Frame(heap, cube), moves))

\* C29: the trace is replayable.  generate_solution's HistoryCube is made
\* from a copy of the caller's faces and then driven by recording do_moves
\* calls interleaved with piece lookups; at every point its faces are those
\* a plain Cube with the caller's faces has after do_moves of
\* get_move_history()
C29_TraceReplays ==
    pc \notin {"idle", "applied"} =>
        ReplayedOnCube(cube_copy.history) = CopyFaces

\* in the middle of solve_corners, after the lookups and moves of
\* solve_cross, on the copy of a scrambled cube
C29_Witness ==
    /\ pc = "solve_corners"
    /\ i = 2
    /\ Len(cube_copy.history) > 20
    /\ CubeFaces # CopyFaces
    /\ ~is_solved(CubeFaces)

\* the number of whole-cube reorientations the flags of a y move ask for
Reorientations(move) == IF move.double THEN 2 ELSE IF move.invert THEN 3 ELSE 1

\* C30: do_moves honours the flags of a y move: one whole-cube
\* reorientation for y, two for y2, three for y', so that the sequence [y]
\* followed by invert_moves([y]) restores the face grids and y2 has the
\* effect of y y
C30_YHonoursFlags ==
    [][(op'.name \in DoMovesNames /\ op'.arg \in {<<"y">>, <<"y", "'">>, <<"y", "2">>}) =>
          /\ heap'[cube'.faces]
                 = Times(YStep, Reorientations(scramble_to_moves(op'.arg)[1]), CubeFaces)
          /\ Faces(Call(Frame(heap', cube'), "do_moves",
                        Args(invert_moves(scramble_to_moves(op'.arg)), FALSE, TRUE)))
                 = CubeFaces]_vars

(***************************************************************************)
(* Properties of the side turns and of the pieces                          *)
(***************************************************************************)
TurnY == Move("y", FALSE, FALSE)

\* faces after n whole-cube reorientations, each one a y move of do_moves
Reoriented(faces, n) == Times(LAMBDA f : DoMove(f, TurnY), n, faces)

\* faces after (before reorientations, the move F, after reorientations)
Conjugated(faces, before, after) ==
    Reoriented(DoMove(Reoriented(faces, before), Move("F", FALSE, FALSE)), after)

\* C31: R, L and B are the F turn conjugated by reorientation.  On every
\* cube state a do_moves call of R leaves the face grids of (y, F, y y y),
\* one of L those of (y y y, F, y) and one of B those of (y y, F, y y);
\* a reorientation followed by three more restores the state
C31_SideTurnsAreConjugates ==
    [][op'.name \in DoMovesNames =>
          /\ op'.arg = <<"R">> => heap'[cube'.faces] = Conjugated(CubeFaces, 1, 3)
          /\ op'.arg = <<"L">> => heap'[cube'.faces] = Conjugated(CubeFaces, 3, 1)
          /\ op'.arg = <<"B">> => heap'[cube'.faces] = Conjugated(CubeFaces, 2, 2)
          /\ op'.arg = <<"y">> =>
                 /\ heap'[cube'.faces] = Reoriented(CubeFaces, 1)
                 /\ Reoriented(heap'[cube'.faces], 3) = CubeFaces]_vars

\* the second call of a cube was do_moves("R"), on faces that a
\* reorientation changes and that are not those of R on a new cube
C31_Witness ==
    /\ op.name = "do_moves"
    /\ op.arg = <<"R">>
    /\ calls = 2
    /\ CubeFaces # DoMove(NewFaces, Move("R", FALSE, FALSE))
    /\ Reoriented(CubeFaces, 1) # CubeFaces
    /\ ~is_solved(CubeFaces)

\* the positions of the trace that hold a move of face y
YPositions(history) == {k \in 1..Len(history) : history[k].face = "y"}

\* the centre colours of F, L, B, R
SideCentres(faces) == [f \in SideFaces |-> faces[f][2][2]]

\* the pc values of generate_solution before solve_middle_edges
BeforeMiddleEdges == {"solve_cross", "solve_cross_end", "solve_corners"}

\* the y moves generate_solution has recorded by now: none before
\* solve_middle_edges, one per colour pair done in it, four after it
YRecorded ==
    IF pc \in BeforeMiddleEdges THEN 0
    ELSE IF pc = "solve_middle_edges" THEN i
    ELSE 4

\* C32: the net reorientation of a solve is the identity.  Every pass of
\* solve_middle_edges's outer loop finds the edge of its colour pair in the
\* table before the table is exhausted, so the stage records four y moves,
\* one at the end of each pass; no other stage records a y; no two y moves
\* are adjacent in the trace; the centres of F, L, B, R are reoriented once
\* per y and after the stage are those before it
C32_NetReorientationIsIdentity ==
    [][/\ (pc = "solve_middle_edges" /\ inner_i + 1 = Len(solve_middle_edges_EDGES)) =>
              (i' = (i + 1) % 4 /\ YPositions(cube_copy'.history) # YPositions(cube_copy.history))
       /\ pc' \notin {"idle", "raised"} =>
              /\ Cardinality(YPositions(cube_copy'.history)) = YRecorded'
              /\ \A k \in YPositions(cube_copy'.history) :
                     /\ cube_copy'.history[k] = TurnY
                     /\ k + 1 \notin YPositions(cube_copy'.history)
              /\ pc' \notin {"applied"} =>
                     SideCentres(heap'[cube_copy'.faces])
                         = SideCentres(Reoriented(heap'[cube'.faces], YRecorded' % 4))
       /\ (pc = "solve_middle_edges" /\ pc' = "solve_eoll") =>
              /\ Cardinality(YPositions(cube_copy'.history)) = 4
              /\ SideCentres(heap'[cube_copy'.faces]) = SideCentres(heap'[cube'.faces])
       /\ pc' = "raised" => pc \notin BeforeMiddleEdges \cup {"solve_middle_edges"}]_vars

\* solve_middle_edges has returned on the copy of a cube whose first two
\* edges were found at the last entry of the table, with four y moves in
\* its trace, the last of them the last move of the trace
C32_Witness ==
    /\ pc = "solve_eoll"
    /\ i = 0
    /\ Cardinality(YPositions(cube_copy.history)) = 4
    /\ cube_copy.history[Len(cube_copy.history)] = TurnY
    /\ SideCentres(CopyFaces) = SideCentres(CubeFaces)
    /\ op.arg = <<"F", "'", " ", "R">>

\* the colours the slot named by cells[k] shows
PieceColours(faces, cells, k) ==
    {faces[cells[k][1][j]][cells[k][2][j][1]][cells[k][2][j][2]] :
         j \in 1..Len(cells[k][1])}

\* the pieces in the slots of cells, each one the set of its colours
PiecesOf(faces, cells) == {PieceColours(faces, cells, k) : k \in 1..Len(cells)}

\* the colours of opposite faces of INITIAL_FACE_COLOUR_MAPPING
OppositeColours == {{WHITE, YELLOW}, {GREEN, BLUE}, {ORANGE, RED}}

\* the edge and the corner pieces of a new cube
NewEdgePieces == PiecesOf(NewFaces, EdgeCells)

NewCornerPieces == PiecesOf(NewFaces, CornerCells)

\* the slots hold as many different pieces as there are slots, those of the
\* new cube, each with as many colours as a slot has stickers and no two of
\* them opposite
PiecesIntact(pieces, new, slots, stickers) ==
    /\ Cardinality(pieces) = slots
    /\ pieces = new
    /\ \A p \in pieces :
           /\ Cardinality(p) = stickers
           /\ \A pair \in OppositeColours : ~(pair \subseteq p)

\* the text holds no y move
NoReorientation(text) == \A k \in 1..Len(text) : text[k] # "y"

\* the centre colour of each face
Centres(faces) == [f \in FaceNames |-> faces[f][2][2]]

\* C33: pieces stay intact.  In every state reached from a new cube by face
\* turns and y reorientations the 12 edge slots hold 12 distinct two-colour
\* pieces and the 8 corner slots 8 distinct three-colour pieces, those of
\* the solved cube, no slot showing a colour twice or two opposite colours;
\* a do_moves call of face turns leaves the centre cell of every face (a
\* new cube, the first state, is reached again by every new-cube step)
C33_PiecesIntact ==
    [][/\ PiecesIntact(PiecesOf(heap'[cube'.faces], EdgeCells), NewEdgePieces, 12, 2)
       /\ PiecesIntact(PiecesOf(heap'[cube'.faces], CornerCells), NewCornerPieces, 8, 3)
       /\ (op'.name \in DoMovesNames /\ NoReorientation(op'.arg)) =>
              Centres(heap'[cube'.faces]) = Centres(CubeFaces)]_vars

\* face turns have been applied to a reoriented cube, which is not solved
C33_Witness ==
    /\ op.name \in DoMovesNames
    /\ calls = 2
    /\ NoReorientation(op.arg)
    /\ Centres(CubeFaces) # Centres(NewFaces)
    /\ ~is_solved(CubeFaces)
    /\ Cardinality(PiecesOf(CubeFaces, CornerCells)) = 8

(***************************************************************************)
(* app.py: the requests that drive the cube and step-by-step playback.     *)
(* Requests are handled one at a time.  A run is some make_move requests,  *)
(* then one start_step_solve, whose call of generate_solution is the       *)
(* steps of the solver above, then any requests of playback, reset and     *)
(* stop.                                                                   *)
(***************************************************************************)
\* the moves make_move is asked for
AppMoves == {<<"R">>, <<"U", "'">>}

\* no request is being handled: start_step_solve has not been asked for
\* ("idle") or has returned ("started")
AtRest == pc \in {"idle", "started"}

\* return jsonify({'status': status, ...}) of the handler name
Responded(name, status) ==
    /\ op' = [name |-> name, arg |-> <<>>]
    /\ ret' = status
    /\ err' = NoError

\* make_move: cube.do_moves(move)
make_move(move) ==
    /\ pc = "idle"
    /\ CallDoMoves(move, TRUE)

\* cube = Cube(3), the statement of new_cube and of reset_cube
ReplaceCube(name) ==
    /\ AtRest
    /\ heap' = [heap EXCEPT ![cube.faces] = NewFaces]
    /\ cube' = NewObject("Cube", cube.faces)
    /\ Responded(name, "success")
    /\ UNCHANGED << calls, lookups, solverVars, step_mode_data >>

new_cube == ReplaceCube("new_cube")

reset_cube == ReplaceCube("reset_cube")

RECURSIVE FacesAfterEach(_, _, _, _)
\* the faces after each of moves[lo..hi] in turn, applied from faces as
\* the loop of Cube.do_moves applies them (halving keeps the evaluation
\* shallow)
FacesAfterEach(faces, moves, lo, hi) ==
    IF lo > hi THEN <<>>
    ELSE IF lo = hi THEN <<DoMove(faces, moves[lo])>>
    ELSE Bind(FacesAfterEach(faces, moves, lo, (lo + hi) \div 2),
              LAMBDA left :
                  left \o FacesAfterEach(left[Len(left)], moves, (lo + hi) \div 2 + 1, hi))

\* step_cube_states without the faces before the first move
StepCubeStates_after_moves(faces, moves) ==
    FacesAfterEach(faces, moves, 1, Len(moves))

\* step_cube_states of start_step_solve: the faces of temp_cube, a Cube
\* with a copy of the faces of cube, before the first token of the solution
\* and after do_moves of each token
StepCubeStates(faces, moves) ==
    <<faces>> \o FacesAfterEach(faces, moves, 1, Len(moves))

\* start_step_solve after generate_solution(cube) has returned
start_step_solve ==
    /\ pc = "returned"
    /\ \E tokens \in {Split(moves_to_scramble(solution))} :
          \E w \in {DoMovesList(Frame(heap, cube), Map(TokenToMove, tokens))} :
              IF w.err # NoError
              THEN /\ Responded("start_step_solve", "error")
                   /\ UNCHANGED step_mode_data
              ELSE /\ step_mode_data' =
                          [active |-> TRUE,
                           solution_moves |-> tokens,
                           current_step |-> 0,
                           step_cube_states |->
                               StepCubeStates(CubeFaces, Map(TokenToMove, tokens))]
                   /\ Responded("start_step_solve", "success")
    /\ pc' = "started"
    /\ UNCHANGED << heap, cube, calls, lookups, cube_copy, i, inner_i, passes,
                    solved_edges, solution >>

\* the body shared by next_step (by = 1) and prev_step (by = -1): an error
\* when step mode is not active or at the end, otherwise current_step moves
\* and cube.faces becomes a copy of step_cube_states[current_step]
Step(name, by, at_end) ==
    /\ AtRest
    /\ IF ~step_mode_data.active \/ at_end
       THEN /\ Responded(name, "error")
            /\ UNCHANGED << heap, step_mode_data >>
       ELSE /\ step_mode_data' = [step_mode_data EXCEPT !.current_step = @ + by]
            /\ heap' = [heap EXCEPT ![cube.faces] =
                            step_mode_data.step_cube_states[step_mode_data.current_step + by + 1]]
            /\ Responded(name, "success")
    /\ UNCHANGED << cube, calls, lookups, solverVars >>

next_step ==
    Step("next_step", 1, step_mode_data.current_step >= Len(step_mode_data.solution_moves))

prev_step == Step("prev_step", -1, step_mode_data.current_step <= 0)

stop_step_solve ==
    /\ AtRest
    /\ step_mode_data' = StepModeOff
    /\ Responded("stop_step_solve", "success")
    /\ UNCHANGED << heap, cube, calls, lookups, solverVars >>

NextApp ==
    \/ \E move \in AppMoves : make_move(move)
    \/ new_cube
    \/ reset_cube
    \/ GenerateSolution
    \/ SolveCross
    \/ SolveCrossEnd
    \/ SolveCorners
    \/ SolveMiddleEdges
    \/ SolveEoll
    \/ SolveOcllPass
    \/ SolveOcllWhile
    \/ SolveCpll
    \/ SolveCpllElse
    \/ SolveEpllPass
    \/ SolveEpllIf
    \/ SolveEpllWhile1
    \/ SolveEpllWhile2
    \/ SolveEpllWhile3
    \/ ReturnSolution
    \/ start_step_solve
    \/ next_step
    \/ prev_step
    \/ stop_step_solve

SpecApp == Init /\ [][NextApp]_vars

(***************************************************************************)
(* Properties of reset and of step-by-step playback                        *)
(***************************************************************************)
PlaybackNames == {"next_step", "prev_step"}

\* C34: reset discards step-by-step progress.  A reset request made while
\* step mode is active leaves a new solved cube and step mode not active;
\* the next or prev request that follows it is rejected and leaves the
\* reset cube as it is
C34_ResetEndsStepMode ==
    [][/\ (step_mode_data.active /\ op'.name = "reset_cube") =>
              /\ heap'[cube'.faces] = NewFaces
              /\ ~step_mode_data'.active
       /\ (pc = "started" /\ op.name = "reset_cube" /\ op'.name \in PlaybackNames) =>
              /\ ret' = "error"
              /\ heap'[cube'.faces] = NewFaces]_vars

\* C35: step-playback bounds.  While step mode is active
\* 0 <= current_step <= len(solution_moves) and step_cube_states has one
\* entry more than solution_moves; a next request at the final step and a
\* prev request at step 0 return an error and leave current_step and the
\* cube; every other next or prev request is accepted, moves current_step
\* by one and sets the faces of the cube to step_cube_states[current_step]
C35_PlaybackBounds ==
    [][/\ step_mode_data'.active =>
              /\ step_mode_data'.current_step \in 0..Len(step_mode_data'.solution_moves)
              /\ Len(step_mode_data'.step_cube_states)
                     = Len(step_mode_data'.solution_moves) + 1
       /\ (step_mode_data.active /\ op'.name \in PlaybackNames) =>
              /\ step_mode_data'.active
              /\ step_mode_data'.solution_moves = step_mode_data.solution_moves
              /\ step_mode_data'.step_cube_states = step_mode_data.step_cube_states
              /\ IF \/ /\ op'.name = "next_step"
                       /\ step_mode_data.current_step = Len(step_mode_data.solution_moves)
                    \/ /\ op'.name = "prev_step"
                       /\ step_mode_data.current_step = 0
                 THEN /\ ret' = "error"
                      /\ step_mode_data'.current_step = step_mode_data.current_step
                      /\ heap'[cube'.faces] = CubeFaces
                 ELSE /\ ret' = "success"
                      /\ step_mode_data'.current_step =
                             step_mode_data.current_step
                                 + (IF op'.name = "next_step" THEN 1 ELSE -1)
                      /\ heap'[cube'.faces] =
                             step_mode_data'.step_cube_states[
                                 step_mode_data'.current_step + 1]]_vars

\* a next request has been rejected at the final step of a solution of more
\* than 100 moves, the cube showing the last of the stored states
C35_Witness ==
    /\ op.name = "next_step"
    /\ ret = "error"
    /\ step_mode_data.active
    /\ step_mode_data.current_step = Len(step_mode_data.solution_moves)
    /\ Len(step_mode_data.solution_moves) > 100
    /\ CubeFaces = step_mode_data.step_cube_states[step_mode_data.current_step + 1]
    /\ calls = 2

=============================================================================
